---- MODULE Spec2Model ----
(***************************************************************************)
(* The diagnostic module of the GPU-management daemon:                     *)
(* DcgmModuleDiag::ProcessMessage and the handlers it routes to            *)
(* (src/modules/diag/DcgmModuleDiag.cpp).                                  *)
(*                                                                         *)
(* A fixed-capacity char buffer is a sequence of bytes whose length is the *)
(* buffer's capacity; byte 0 is the terminator.  A command is a record     *)
(* holding the bytes of the message the caller passes, viewed through the  *)
(* struct its header declares.                                             *)
(***************************************************************************)
EXTENDS Integers, Sequences, FiniteSets, TLC

(***************************************************************************)
(* Capacities.  The program's values are set in dcgm_structs.h; the model  *)
(* scales them down, keeping testParms of dcgmRunDiag_v8 wider than        *)
(* testParms of dcgmRunDiag_v7.                                            *)
(***************************************************************************)
DCGM_MAX_TEST_NAMES == 2

DCGM_MAX_TEST_PARMS == 2

DCGM_MAX_TEST_NAMES_LEN == 17

DCGM_MAX_TEST_PARMS_LEN == 3

ParmsLenGrowth == 2

DCGM_MAX_TEST_PARMS_LEN_V2 == DCGM_MAX_TEST_PARMS_LEN + ParmsLenGrowth

DCGM_GPU_LIST_LEN == 4

DCGM_PATH_LEN == 3

DCGM_MAX_CONFIG_FILE_LEN == 4

DCGM_THROTTLE_MASK_LEN == 3

(***************************************************************************)
(* Return codes (dcgmReturn_t).                                            *)
(***************************************************************************)
DCGM_ST_OK == "DCGM_ST_OK"

DCGM_ST_BADPARAM == "DCGM_ST_BADPARAM"

DCGM_ST_VER_MISMATCH == "DCGM_ST_VER_MISMATCH"

DCGM_ST_FUNCTION_NOT_FOUND == "DCGM_ST_FUNCTION_NOT_FOUND"

DCGM_ST_PAUSED == "DCGM_ST_PAUSED"

DCGM_ST_NVVS_ERROR == "DCGM_ST_NVVS_ERROR"

DCGM_ST_NOT_RUNNING == "DCGM_ST_NOT_RUNNING"

(***************************************************************************)
(* Module ids, subcommands and message versions.  The two subcommand       *)
(* namespaces (core, diag) number their commands independently.            *)
(***************************************************************************)
DcgmModuleIdCore == 0

DcgmModuleIdPolicy == 5

DcgmModuleIdDiag == 7

DCGM_DIAG_SR_RUN == 1

DCGM_DIAG_SR_STOP == 2

DCGM_CORE_SR_LOGGING_CHANGED == 4

DCGM_CORE_SR_PAUSE_RESUME == 9

dcgm_diag_msg_run_version5 == 5

dcgm_diag_msg_run_version6 == 6

dcgm_diag_msg_run_version7 == 7

dcgm_diag_msg_run_version8 == 8

dcgm_diag_msg_run_version9 == 9

dcgm_diag_msg_run_version == dcgm_diag_msg_run_version9

(***************************************************************************)
(* Char buffers.                                                           *)
(***************************************************************************)
Min(a, b) == IF a <= b THEN a ELSE b

\* An all-zero buffer of capacity n (value-initialisation, "{}").
ZeroBuf(n) == [i \in 1..n |-> 0]

\* strnlen(buf, sizeof(buf)): the number of bytes before the first terminator,
\* the capacity when there is none.
StrLen(buf) ==
    IF \E i \in 1..Len(buf) : buf[i] = 0
    THEN (CHOOSE i \in 1..Len(buf) : buf[i] = 0 /\ \A j \in 1..(i - 1) : buf[j] # 0) - 1
    ELSE Len(buf)

\* The string a reader finds in the buffer: the bytes before the first terminator.
CStr(buf) == SubSeq(buf, 1, StrLen(buf))

\* The buffer holds a terminator within its capacity.
Terminated(buf) == \E i \in 1..Len(buf) : buf[i] = 0

\* dcgmTerminateCharBuffer(x): x[sizeof(x) - 1] = '\0'.
dcgmTerminateCharBuffer(buf) == [buf EXCEPT ![Len(buf)] = 0]

\* SafeCopyTo<sizeof(dst), sizeof(src)>(dst, src): copies the string of src,
\* reading at most sizeof(src) bytes and writing at most sizeof(dst) - 1 of
\* them, and terminates it.
SafeCopyTo(dst, src) ==
    LET n == Min(StrLen(src), Len(dst) - 1)
    IN  [i \in 1..Len(dst) |-> IF i <= n THEN src[i] ELSE IF i = n + 1 THEN 0 ELSE dst[i]]

\* std::memcpy(dst, src, n), for n within both buffers.
MemCpy(dst, src, n) == [i \in 1..Len(dst) |-> IF i <= n THEN src[i] ELSE dst[i]]

\* What one copy touches: the bytes it reads from the source field and the
\* bytes it writes to the destination field, next to the capacity of each.
CopyExtent(field, index, dst, src, read, written) ==
    [field |-> field, index |-> index, srcCap |-> Len(src), dstCap |-> Len(dst),
     read |-> read, written |-> written]

\* SafeCopyTo reads the string of src and its terminator when it has one
\* (strnlen stops at sizeof(src)), and writes the bytes kept and a terminator.
SafeCopyToExtent(field, index, dst, src) ==
    CopyExtent(field, index, dst, src, Min(StrLen(src) + 1, Len(src)),
               Min(StrLen(src), Len(dst) - 1) + 1)

\* std::memcpy(dst, src, n) reads n bytes and writes n bytes.
MemCpyExtent(field, index, dst, src, n) == CopyExtent(field, index, dst, src, n, n)

(***************************************************************************)
(* The run-request structs.                                                *)
(***************************************************************************)
ScalarFields ==
    {"version", "flags", "debugLevel", "groupId", "validate", "currentIteration",
     "totalIterations", "timeoutSeconds", "failCheckInterval"}

BufferFields ==
    {"fakeGpuList", "gpuList", "debugLogFile", "statsPath", "configFileContents",
     "throttleMask", "pluginPath", "_unusedBuf"}

ArrayFields == {"testNames", "testParms"}

\* sizeof of a char-buffer field; the same in dcgmRunDiag_v7 and dcgmRunDiag_v8.
BufferCap(f) ==
    CASE f \in {"fakeGpuList", "gpuList"} -> DCGM_GPU_LIST_LEN
      [] f \in {"debugLogFile", "statsPath", "pluginPath", "_unusedBuf"} -> DCGM_PATH_LEN
      [] f = "configFileContents" -> DCGM_MAX_CONFIG_FILE_LEN
      [] f = "throttleMask" -> DCGM_THROTTLE_MASK_LEN

\* Number of elements of an array field.
ArrayLen(f) == IF f = "testNames" THEN DCGM_MAX_TEST_NAMES ELSE DCGM_MAX_TEST_PARMS

\* sizeof of one element of an array field of dcgmRunDiag_v<gen>.
ElemCap(gen, f) ==
    IF f = "testNames" THEN DCGM_MAX_TEST_NAMES_LEN
    ELSE IF gen = 7 THEN DCGM_MAX_TEST_PARMS_LEN ELSE DCGM_MAX_TEST_PARMS_LEN_V2

\* A value-initialised dcgmRunDiag_v<gen>.
ZeroRunDiag(gen) ==
    [version |-> 0, flags |-> 0, debugLevel |-> 0, groupId |-> 0, validate |-> 0,
     testNames |-> [i \in 1..DCGM_MAX_TEST_NAMES |-> ZeroBuf(ElemCap(gen, "testNames"))],
     testParms |-> [i \in 1..DCGM_MAX_TEST_PARMS |-> ZeroBuf(ElemCap(gen, "testParms"))],
     fakeGpuList |-> ZeroBuf(DCGM_GPU_LIST_LEN),
     gpuList |-> ZeroBuf(DCGM_GPU_LIST_LEN),
     debugLogFile |-> ZeroBuf(DCGM_PATH_LEN),
     statsPath |-> ZeroBuf(DCGM_PATH_LEN),
     configFileContents |-> ZeroBuf(DCGM_MAX_CONFIG_FILE_LEN),
     throttleMask |-> ZeroBuf(DCGM_THROTTLE_MASK_LEN),
     pluginPath |-> ZeroBuf(DCGM_PATH_LEN),
     currentIteration |-> 0, totalIterations |-> 0, timeoutSeconds |-> 0,
     _unusedBuf |-> ZeroBuf(DCGM_PATH_LEN),
     failCheckInterval |-> 0]

(***************************************************************************)
(* The upgrade to the latest request struct.                               *)
(***************************************************************************)
\* The assignments and copies of ProduceLatestDcgmRunDiag, made into drdV8.
CopyFields(drdV8, drdV7) ==
    [drdV8 EXCEPT
        !.version = drdV7.version,
        !.flags = drdV7.flags,
        !.debugLevel = drdV7.debugLevel,
        !.groupId = drdV7.groupId,
        !.validate = drdV7.validate,
        !.testNames = [i \in 1..DCGM_MAX_TEST_NAMES |-> SafeCopyTo(@[i], drdV7.testNames[i])],
        !.testParms = [i \in 1..DCGM_MAX_TEST_PARMS |-> SafeCopyTo(@[i], drdV7.testParms[i])],
        !.fakeGpuList = SafeCopyTo(@, drdV7.fakeGpuList),
        !.gpuList = SafeCopyTo(@, drdV7.gpuList),
        !.debugLogFile = SafeCopyTo(@, drdV7.debugLogFile),
        !.statsPath = SafeCopyTo(@, drdV7.statsPath),
        !.configFileContents = SafeCopyTo(@, drdV7.configFileContents),
        !.throttleMask = MemCpy(@, drdV7.throttleMask, Len(drdV7.throttleMask)),
        !.pluginPath = SafeCopyTo(@, drdV7.pluginPath),
        !.currentIteration = drdV7.currentIteration,
        !.totalIterations = drdV7.totalIterations,
        !.timeoutSeconds = drdV7.timeoutSeconds,
        !.failCheckInterval = drdV7.failCheckInterval]

\* Mutant: throttleMask is copied with the size of configFileContents.
CopyExtents_WrongSize(drdV8, drdV7) ==
    [i \in 1..DCGM_MAX_TEST_NAMES |->
        SafeCopyToExtent("testNames", i, drdV8.testNames[i], drdV7.testNames[i])]
    \o [i \in 1..DCGM_MAX_TEST_PARMS |->
        SafeCopyToExtent("testParms", i, drdV8.testParms[i], drdV7.testParms[i])]
    \o <<SafeCopyToExtent("fakeGpuList", 0, drdV8.fakeGpuList, drdV7.fakeGpuList),
         SafeCopyToExtent("gpuList", 0, drdV8.gpuList, drdV7.gpuList),
         SafeCopyToExtent("debugLogFile", 0, drdV8.debugLogFile, drdV7.debugLogFile),
         SafeCopyToExtent("statsPath", 0, drdV8.statsPath, drdV7.statsPath),
         SafeCopyToExtent("configFileContents", 0, drdV8.configFileContents,
                          drdV7.configFileContents),
         MemCpyExtent("throttleMask", 0, drdV8.throttleMask, drdV7.throttleMask,
                      Len(drdV7.configFileContents)),
         SafeCopyToExtent("pluginPath", 0, drdV8.pluginPath, drdV7.pluginPath)>>

\* The copies of ProduceLatestDcgmRunDiag into char arrays, in the order made.
CopyExtents(drdV8, drdV7) ==
    [i \in 1..DCGM_MAX_TEST_NAMES |->
        SafeCopyToExtent("testNames", i, drdV8.testNames[i], drdV7.testNames[i])]
    \o [i \in 1..DCGM_MAX_TEST_PARMS |->
        SafeCopyToExtent("testParms", i, drdV8.testParms[i], drdV7.testParms[i])]
    \o <<SafeCopyToExtent("fakeGpuList", 0, drdV8.fakeGpuList, drdV7.fakeGpuList),
         SafeCopyToExtent("gpuList", 0, drdV8.gpuList, drdV7.gpuList),
         SafeCopyToExtent("debugLogFile", 0, drdV8.debugLogFile, drdV7.debugLogFile),
         SafeCopyToExtent("statsPath", 0, drdV8.statsPath, drdV7.statsPath),
         SafeCopyToExtent("configFileContents", 0, drdV8.configFileContents,
                          drdV7.configFileContents),
         MemCpyExtent("throttleMask", 0, drdV8.throttleMask, drdV7.throttleMask,
                      Len(drdV7.throttleMask)),
         SafeCopyToExtent("pluginPath", 0, drdV8.pluginPath, drdV7.pluginPath)>>

\* Mutant: drdV8 is declared without "{}", so what is not written is not zero.
ProduceLatestDcgmRunDiag_Uninit(drdV7) ==
    CopyFields([ZeroRunDiag(8) EXCEPT !._unusedBuf = [i \in DOMAIN @ |-> 120],
                                      !.testParms = [i \in DOMAIN @ |->
                                                        [j \in DOMAIN @[i] |-> 120]]],
               drdV7)

\* Mutant: the two GPU lists are copied into each other's field.
ProduceLatestDcgmRunDiag_SwapGpuLists(drdV7) ==
    CopyFields(ZeroRunDiag(8),
               [drdV7 EXCEPT !.gpuList = drdV7.fakeGpuList, !.fakeGpuList = drdV7.gpuList])

\* dcgmRunDiag_v8 drdV8 {}; the copies; return drdV8.
ProduceLatestDcgmRunDiag(drdV7) == CopyFields(ZeroRunDiag(8), drdV7)

(***************************************************************************)
(* "Sanitize the inputs": the block every ProcessRun_v<K> runs on the      *)
(* request it is about to hand to the diagnostic manager.                  *)
(***************************************************************************)
\* Mutant: the throttleMask line is missing from the block.
SanitizeInputs_NoThrottleMask(drd) ==
    [drd EXCEPT
        !.fakeGpuList = dcgmTerminateCharBuffer(@),
        !.gpuList = dcgmTerminateCharBuffer(@),
        !.debugLogFile = dcgmTerminateCharBuffer(@),
        !.statsPath = dcgmTerminateCharBuffer(@),
        !.configFileContents = dcgmTerminateCharBuffer(@),
        !.pluginPath = dcgmTerminateCharBuffer(@),
        !._unusedBuf = dcgmTerminateCharBuffer(@),
        !.testNames = [i \in DOMAIN @ |-> dcgmTerminateCharBuffer(@[i])],
        !.testParms = [i \in DOMAIN @ |-> dcgmTerminateCharBuffer(@[i])]]

SanitizeInputs(drd) ==
    [drd EXCEPT
        !.fakeGpuList = dcgmTerminateCharBuffer(@),
        !.gpuList = dcgmTerminateCharBuffer(@),
        !.debugLogFile = dcgmTerminateCharBuffer(@),
        !.statsPath = dcgmTerminateCharBuffer(@),
        !.configFileContents = dcgmTerminateCharBuffer(@),
        !.throttleMask = dcgmTerminateCharBuffer(@),
        !.pluginPath = dcgmTerminateCharBuffer(@),
        !._unusedBuf = dcgmTerminateCharBuffer(@),
        !.testNames = [i \in DOMAIN @ |-> dcgmTerminateCharBuffer(@[i])],
        !.testParms = [i \in DOMAIN @ |-> dcgmTerminateCharBuffer(@[i])]]

(***************************************************************************)
(* DcgmDiagResponseWrapper: version 0 is a wrapper not yet bound; response *)
(* is the address of the response struct it writes to.                     *)
(***************************************************************************)
NewWrapper == [version |-> 0, response |-> 0]

\* SetVersion<K>(&msg->diagResponse)
SetVersion(drw, k, response) ==
    IF drw.version = 0 THEN [version |-> k, response |-> response] ELSE drw

\* DcgmModule::CheckVersion(header, expected)
CheckVersion(header, expected) ==
    IF header.version = expected THEN DCGM_ST_OK ELSE DCGM_ST_VER_MISMATCH

(***************************************************************************)
(* What one call of a handler did.  ret: the status returned; msg: the     *)
(* caller's message as the handler leaves it; steps: the calls made, in    *)
(* order; upgrades: the requests ProduceLatestDcgmRunDiag returned;        *)
(* copies: the extents of the buffer copies it made; drw:                  *)
(* the handler's response wrapper; runCalls: each RunDiagAndAction call,   *)
(* its arguments and return; stopCalls: the return of each StopRunningDiag *)
(* call; isPaused, severity: the module's state afterwards.  env holds     *)
(* what the collaborators answer: env.run is RunDiagAndAction's return,    *)
(* env.stop is StopRunningDiag's, env.severity the severity the logger     *)
(* reports.  touched: the objects the call read or wrote, each with its    *)
(* storage and the part it plays.  loads: the values the call loaded from  *)
(* m_isPaused, in order.                                                   *)
(***************************************************************************)
Outcome(ret, msg, st, steps) ==
    [ret |-> ret, msg |-> msg, isPaused |-> st.isPaused, severity |-> st.severity,
     steps |-> steps, upgrades |-> <<>>, copies |-> <<>>, drw |-> NewWrapper,
     runCalls |-> <<>>, stopCalls |-> <<>>, touched |-> {}, loads |-> <<>>]

\* An object a handler works on.  storage "local": a variable of the call
\* itself; "caller": in the message the caller passed; "member": in the
\* module, one for all calls.
Object(name, storage, role) == [object |-> name, storage |-> storage, role |-> role]

\* DcgmDiagResponseWrapper drw; declared in each run handler.
LocalWrapper == Object("drw", "local", "wrapper")

\* dcgmRunDiag_v8 drd8 = ProduceLatestDcgmRunDiag(msg->runDiag);
LocalRequest == Object("drd8", "local", "request")

\* msg->runDiag of a message that is canonical already.
MessageRequest == Object("msg->runDiag", "caller", "request")

\* The message: header, action, request as sent.
Message == Object("msg", "caller", "message")

PauseFlag == Object("m_isPaused", "member", "pause flag")

\* mpDiagManager, through which runs are started and the stop signal is raised.
Manager == Object("mpDiagManager", "member", "manager")

\* mpDiagManager->RunDiagAndAction(drd, action, drw, connectionId): the manager
\* answers through the wrapper, in the layout the wrapper is bound to.
RunDiagAndAction(o, drd, action, drw, connectionId, env) ==
    [o EXCEPT
        !.ret = env.run,
        !.msg = IF drw.response = o.msg.ptr
                THEN [@ EXCEPT !.diagResponse = drw.version]
                ELSE @,
        !.steps = Append(@, "RunDiagAndAction"),
        !.drw = drw,
        !.touched = @ \cup {Manager},
        !.runCalls = Append(@, [drd |-> drd, action |-> action, drw |-> drw,
                                connectionId |-> connectionId, ret |-> env.run])]

\* Mutant: the sanitization is the one of ProcessRun_v9, on msg->runDiag, and
\* the upgrade is taken from the sanitized message.
ProcessRunUpgraded_InPlace(msg, st, env, expected, responseVersion) ==
    LET dcgmReturn == CheckVersion(msg.header, expected)
        drw == SetVersion(NewWrapper, responseVersion, msg.ptr)
        sanitized == [msg EXCEPT !.runDiag = SanitizeInputs(@)]
        drd8 == ProduceLatestDcgmRunDiag(sanitized.runDiag)
        upgraded == <<"ProduceLatestDcgmRunDiag", "CheckVersion">>
        copies == CopyExtents(ZeroRunDiag(8), sanitized.runDiag)
    IN  IF dcgmReturn # DCGM_ST_OK
        THEN [Outcome(dcgmReturn, msg, st, upgraded)
                 EXCEPT !.upgrades = <<drd8>>, !.copies = copies]
        ELSE RunDiagAndAction(
                 [Outcome(DCGM_ST_OK, sanitized, st, upgraded \o <<"SetVersion", "Sanitize">>)
                     EXCEPT !.upgrades = <<drd8>>, !.copies = copies],
                 SanitizeInputs(drd8), msg.action, drw, msg.header.connectionId, env)

\* Mutant: the upgraded request and the wrapper are kept in the module, as
\* members all calls use.
ProcessRunUpgraded_Members(msg, st, env, expected, responseVersion) ==
    LET drd8 == ProduceLatestDcgmRunDiag(msg.runDiag)
        dcgmReturn == CheckVersion(msg.header, expected)
        drw == SetVersion(NewWrapper, responseVersion, msg.ptr)
        upgraded == <<"ProduceLatestDcgmRunDiag", "CheckVersion">>
        copies == CopyExtents(ZeroRunDiag(8), msg.runDiag)
        touched == {Message, Object("m_drw", "member", "wrapper"),
                    Object("m_drd8", "member", "request")}
    IN  IF dcgmReturn # DCGM_ST_OK
        THEN [Outcome(dcgmReturn, msg, st, upgraded)
                 EXCEPT !.upgrades = <<drd8>>, !.copies = copies, !.touched = touched]
        ELSE RunDiagAndAction(
                 [Outcome(DCGM_ST_OK, msg, st, upgraded \o <<"SetVersion", "Sanitize">>)
                     EXCEPT !.upgrades = <<drd8>>, !.copies = copies, !.touched = touched],
                 SanitizeInputs(drd8), msg.action, drw, msg.header.connectionId, env)

\* Mutant: the request is sanitized before the wrapper is bound.
ProcessRunUpgraded_SanitizeFirst(msg, st, env, expected, responseVersion) ==
    LET drd8 == ProduceLatestDcgmRunDiag(msg.runDiag)
        dcgmReturn == CheckVersion(msg.header, expected)
        drw == SetVersion(NewWrapper, responseVersion, msg.ptr)
        upgraded == <<"ProduceLatestDcgmRunDiag", "CheckVersion">>
        copies == CopyExtents(ZeroRunDiag(8), msg.runDiag)
    IN  IF dcgmReturn # DCGM_ST_OK
        THEN [Outcome(dcgmReturn, msg, st, upgraded)
                 EXCEPT !.upgrades = <<drd8>>, !.copies = copies]
        ELSE RunDiagAndAction(
                 [Outcome(DCGM_ST_OK, msg, st, upgraded \o <<"Sanitize", "SetVersion">>)
                     EXCEPT !.upgrades = <<drd8>>, !.copies = copies],
                 SanitizeInputs(drd8), msg.action, drw, msg.header.connectionId, env)

\* Mutant: the wrapper is bound where it is declared, before the version check.
ProcessRunUpgraded_BindFirst(msg, st, env, expected, responseVersion) ==
    LET drd8 == ProduceLatestDcgmRunDiag(msg.runDiag)
        dcgmReturn == CheckVersion(msg.header, expected)
        drw == SetVersion(NewWrapper, responseVersion, msg.ptr)
        bound == <<"SetVersion", "ProduceLatestDcgmRunDiag", "CheckVersion">>
        copies == CopyExtents(ZeroRunDiag(8), msg.runDiag)
    IN  IF dcgmReturn # DCGM_ST_OK
        THEN [Outcome(dcgmReturn, msg, st, bound)
                 EXCEPT !.upgrades = <<drd8>>, !.copies = copies, !.drw = drw]
        ELSE RunDiagAndAction(
                 [Outcome(DCGM_ST_OK, msg, st, bound \o <<"Sanitize">>)
                     EXCEPT !.upgrades = <<drd8>>, !.copies = copies],
                 SanitizeInputs(drd8), msg.action, drw, msg.header.connectionId, env)

\* The body ProcessRun_v5, _v6, _v7 and _v8 share: upgrade, version check,
\* bind, sanitize, run.
ProcessRunUpgraded(msg, st, env, expected, responseVersion) ==
    LET drd8 == ProduceLatestDcgmRunDiag(msg.runDiag)
        dcgmReturn == CheckVersion(msg.header, expected)
        drw == SetVersion(NewWrapper, responseVersion, msg.ptr)
        upgraded == <<"ProduceLatestDcgmRunDiag", "CheckVersion">>
        copies == CopyExtents(ZeroRunDiag(8), msg.runDiag)
        touched == {Message, LocalWrapper, LocalRequest}
    IN  IF dcgmReturn # DCGM_ST_OK
        THEN [Outcome(dcgmReturn, msg, st, upgraded)
                 EXCEPT !.upgrades = <<drd8>>, !.copies = copies, !.touched = touched]
        ELSE RunDiagAndAction(
                 [Outcome(DCGM_ST_OK, msg, st, upgraded \o <<"SetVersion", "Sanitize">>)
                     EXCEPT !.upgrades = <<drd8>>, !.copies = copies, !.touched = touched],
                 SanitizeInputs(drd8), msg.action, drw, msg.header.connectionId, env)

ProcessRun_v5(msg, st, env) ==
    ProcessRunUpgraded(msg, st, env, dcgm_diag_msg_run_version5, 7)

\* Mutant: copied from ProcessRun_v8, the bind still SetVersion10.
ProcessRun_v7_Bind10(msg, st, env) ==
    ProcessRunUpgraded(msg, st, env, dcgm_diag_msg_run_version7, 10)

ProcessRun_v7(msg, st, env) ==
    ProcessRunUpgraded(msg, st, env, dcgm_diag_msg_run_version7, 9)

ProcessRun_v6(msg, st, env) ==
    ProcessRunUpgraded(msg, st, env, dcgm_diag_msg_run_version6, 8)

\* Mutant: the body of the older handlers, which copies the request through
\* ProduceLatestDcgmRunDiag, used for the latest message as well.
ProcessRun_v9_Upgrades(msg, st, env) ==
    ProcessRunUpgraded(msg, st, env, dcgm_diag_msg_run_version9, 10)

\* The request is dcgmRunDiag_v8 already: it is checked, sanitized in the
\* message and passed by address; ProduceLatestDcgmRunDiag is not called.
ProcessRun_v9(msg, st, env) ==
    LET dcgmReturn == CheckVersion(msg.header, dcgm_diag_msg_run_version9)
        drw == SetVersion(NewWrapper, 10, msg.ptr)
        sanitized == [msg EXCEPT !.runDiag = SanitizeInputs(@)]
        touched == {Message, LocalWrapper, MessageRequest}
    IN  IF dcgmReturn # DCGM_ST_OK
        THEN [Outcome(dcgmReturn, msg, st, <<"CheckVersion">>) EXCEPT !.touched = touched]
        ELSE RunDiagAndAction(
                 [Outcome(DCGM_ST_OK, sanitized, st,
                          <<"CheckVersion", "SetVersion", "Sanitize">>)
                     EXCEPT !.touched = touched],
                 sanitized.runDiag, msg.action, drw, msg.header.connectionId, env)

ProcessRun_v8(msg, st, env) ==
    ProcessRunUpgraded(msg, st, env, dcgm_diag_msg_run_version8, 10)

\* Mutant: the stop is acknowledged without a call to the manager.
ProcessStop_NoCall(msg, st, env) == Outcome(DCGM_ST_OK, msg, st, <<>>)

ProcessStop(msg, st, env) ==
    [Outcome(env.stop, msg, st, <<"StopRunningDiag">>)
        EXCEPT !.stopCalls = <<env.stop>>, !.touched = {Manager}]

\* Mutant: the default case breaks instead of returning, so retSt stays OK.
ProcessCoreMessage_DefaultBreaks(moduleCommand, st, env) ==
    CASE moduleCommand.header.subCommand = DCGM_CORE_SR_LOGGING_CHANGED ->
            Outcome(DCGM_ST_OK, moduleCommand, [st EXCEPT !.severity = env.severity],
                    <<"OnLoggingSeverityChange">>)
      [] moduleCommand.header.subCommand = DCGM_CORE_SR_PAUSE_RESUME ->
            Outcome(DCGM_ST_OK, moduleCommand, [st EXCEPT !.isPaused = moduleCommand.pause],
                    <<"m_isPaused.store">>)
      [] OTHER -> Outcome(DCGM_ST_OK, moduleCommand, st, <<>>)

\* Mutant: the flag is set on every pause/resume message, whatever it carries.
ProcessCoreMessage_AlwaysPause(moduleCommand, st, env) ==
    CASE moduleCommand.header.subCommand = DCGM_CORE_SR_LOGGING_CHANGED ->
            Outcome(DCGM_ST_OK, moduleCommand, [st EXCEPT !.severity = env.severity],
                    <<"OnLoggingSeverityChange">>)
      [] moduleCommand.header.subCommand = DCGM_CORE_SR_PAUSE_RESUME ->
            Outcome(DCGM_ST_OK, moduleCommand, [st EXCEPT !.isPaused = TRUE],
                    <<"m_isPaused.store">>)
      [] OTHER -> Outcome(DCGM_ST_FUNCTION_NOT_FOUND, moduleCommand, st, <<>>)

ProcessCoreMessage(moduleCommand, st, env) ==
    CASE moduleCommand.header.subCommand = DCGM_CORE_SR_LOGGING_CHANGED ->
            Outcome(DCGM_ST_OK, moduleCommand, [st EXCEPT !.severity = env.severity],
                    <<"OnLoggingSeverityChange">>)
      [] moduleCommand.header.subCommand = DCGM_CORE_SR_PAUSE_RESUME ->
            Outcome(DCGM_ST_OK, moduleCommand, [st EXCEPT !.isPaused = moduleCommand.pause],
                    <<"m_isPaused.store">>)
      [] OTHER -> Outcome(DCGM_ST_FUNCTION_NOT_FOUND, moduleCommand, st, <<>>)

\* Mutant: the final else is missing, so an unknown version leaves retSt OK.
ProcessRunVersion_NoElse(moduleCommand, st, env) ==
    LET version == moduleCommand.header.version
    IN  CASE version = dcgm_diag_msg_run_version9 -> ProcessRun_v9(moduleCommand, st, env)
          [] version = dcgm_diag_msg_run_version8 -> ProcessRun_v8(moduleCommand, st, env)
          [] version = dcgm_diag_msg_run_version7 -> ProcessRun_v7(moduleCommand, st, env)
          [] version = dcgm_diag_msg_run_version6 -> ProcessRun_v6(moduleCommand, st, env)
          [] version = dcgm_diag_msg_run_version5 -> ProcessRun_v5(moduleCommand, st, env)
          [] OTHER -> Outcome(DCGM_ST_OK, moduleCommand, st, <<>>)

\* case DCGM_DIAG_SR_RUN, module not paused: route by the declared version.
ProcessRunVersion(moduleCommand, st, env) ==
    LET version == moduleCommand.header.version
    IN  CASE version = dcgm_diag_msg_run_version9 -> ProcessRun_v9(moduleCommand, st, env)
          [] version = dcgm_diag_msg_run_version8 -> ProcessRun_v8(moduleCommand, st, env)
          [] version = dcgm_diag_msg_run_version7 -> ProcessRun_v7(moduleCommand, st, env)
          [] version = dcgm_diag_msg_run_version6 -> ProcessRun_v6(moduleCommand, st, env)
          [] version = dcgm_diag_msg_run_version5 -> ProcessRun_v5(moduleCommand, st, env)
          [] OTHER -> Outcome(DCGM_ST_VER_MISMATCH, moduleCommand, st, <<>>)

\* Mutant: the pause flag is loaded but the run goes ahead.
ProcessRunCommand_NoGate(moduleCommand, st, env) ==
    [ProcessRunVersion(moduleCommand, st, env)
        EXCEPT !.steps = <<"m_isPaused.load">> \o @, !.loads = <<st.isPaused>>]

\* case DCGM_DIAG_SR_RUN: the pause flag is loaded, and gates the run.
ProcessRunCommand(moduleCommand, st, env) ==
    LET o == IF st.isPaused
             THEN Outcome(DCGM_ST_PAUSED, moduleCommand, st, <<>>)
             ELSE ProcessRunVersion(moduleCommand, st, env)
    IN  [o EXCEPT !.steps = <<"m_isPaused.load">> \o @,
                  !.touched = {Message, PauseFlag} \cup @,
                  !.loads = <<st.isPaused>>]

\* Mutant: the pause gate sits before the switch, so it refuses stop as well.
ProcessDiagCommand_GateAll(moduleCommand, st, env) ==
    LET o == IF st.isPaused
             THEN Outcome(DCGM_ST_PAUSED, moduleCommand, st, <<"m_isPaused.load">>)
             ELSE CASE moduleCommand.header.subCommand = DCGM_DIAG_SR_RUN ->
                          ProcessRunVersion(moduleCommand, st, env)
                    [] moduleCommand.header.subCommand = DCGM_DIAG_SR_STOP ->
                          ProcessStop(moduleCommand, st, env)
                    [] OTHER -> Outcome(DCGM_ST_FUNCTION_NOT_FOUND, moduleCommand, st, <<>>)
    IN  [o EXCEPT !.loads = <<st.isPaused>>]

\* The switch on the subcommand of a command that is not the core's.
ProcessDiagCommand(moduleCommand, st, env) ==
    CASE moduleCommand.header.subCommand = DCGM_DIAG_SR_RUN ->
            ProcessRunCommand(moduleCommand, st, env)
      [] moduleCommand.header.subCommand = DCGM_DIAG_SR_STOP ->
            ProcessStop(moduleCommand, st, env)
      [] OTHER -> Outcome(DCGM_ST_FUNCTION_NOT_FOUND, moduleCommand, st, <<>>)

\* Mutant: the run and stop subcommands are routed before the module id is tested.
ProcessMessage_SubCommandFirst(moduleCommand, st, env) ==
    IF moduleCommand.ptr = 0
    THEN Outcome(DCGM_ST_BADPARAM, moduleCommand, st, <<>>)
    ELSE IF /\ moduleCommand.header.moduleId = DcgmModuleIdCore
            /\ moduleCommand.header.subCommand \notin {DCGM_DIAG_SR_RUN, DCGM_DIAG_SR_STOP}
         THEN ProcessCoreMessage(moduleCommand, st, env)
         ELSE ProcessDiagCommand(moduleCommand, st, env)

\* Mutant: a paused module refuses every command, the core's included.
ProcessMessage_PausedRefusesAll(moduleCommand, st, env) ==
    IF moduleCommand.ptr = 0
    THEN Outcome(DCGM_ST_BADPARAM, moduleCommand, st, <<>>)
    ELSE IF st.isPaused
         THEN [Outcome(DCGM_ST_PAUSED, moduleCommand, st, <<"m_isPaused.load">>)
                  EXCEPT !.loads = <<TRUE>>]
         ELSE IF moduleCommand.header.moduleId = DcgmModuleIdCore
              THEN ProcessCoreMessage(moduleCommand, st, env)
              ELSE ProcessDiagCommand(moduleCommand, st, env)

\* Mutant: the diagnostic subcommands are read only for the diag module's own id.
ProcessMessage_DiagIdOnly(moduleCommand, st, env) ==
    IF moduleCommand.ptr = 0
    THEN Outcome(DCGM_ST_BADPARAM, moduleCommand, st, <<>>)
    ELSE IF moduleCommand.header.moduleId = DcgmModuleIdCore
         THEN ProcessCoreMessage(moduleCommand, st, env)
         ELSE IF moduleCommand.header.moduleId = DcgmModuleIdDiag
              THEN ProcessDiagCommand(moduleCommand, st, env)
              ELSE Outcome(DCGM_ST_BADPARAM, moduleCommand, st, <<>>)

\* Mutant: the null check is missing; the command is read through the pointer.
ProcessMessage_NoNullCheck(moduleCommand, st, env) ==
    IF moduleCommand.header.moduleId = DcgmModuleIdCore
    THEN ProcessCoreMessage(moduleCommand, st, env)
    ELSE ProcessDiagCommand(moduleCommand, st, env)

ProcessMessage(moduleCommand, st, env) ==
    IF moduleCommand.ptr = 0
    THEN Outcome(DCGM_ST_BADPARAM, moduleCommand, st, <<>>)
    ELSE IF moduleCommand.header.moduleId = DcgmModuleIdCore
         THEN ProcessCoreMessage(moduleCommand, st, env)
         ELSE ProcessDiagCommand(moduleCommand, st, env)

(***************************************************************************)
(* The commands the model sends.                                           *)
(***************************************************************************)
\* The i-th byte of the text the model fills buffers with: "abcabc...".
Pat(i) == 97 + ((i - 1) % 3)

\* A buffer of capacity n: k text bytes, then (when k < n) a terminator and
\* bytes g left over from an earlier use of the buffer.  k = n is a buffer
\* filled to capacity with no terminator.
Buf(n, k, g) == [i \in 1..n |-> IF i <= k THEN Pat(i) ELSE IF i = k + 1 THEN 0 ELSE g]

\* The numbers of text bytes the buffers of capacity n are filled with: none,
\* one, two, and from two short of the capacity up to the capacity.
FillLevels(n) == {k \in 0..n : k <= 2 \/ k >= n - 2}

BufValues(n) == {Buf(n, k, g) : k \in FillLevels(n), g \in {0, 120}}

\* The bytes of s in a zero-filled buffer of capacity n.
StrBuf(n, s) == [i \in 1..n |-> IF i <= Len(s) THEN s[i] ELSE 0]

ScalarValues == {0, 1, 2147483647}

\* "0,1"
Str_0_1 == <<48, 44, 49>>

\* "persistence_mode"
Str_persistence_mode ==
    <<112, 101, 114, 115, 105, 115, 116, 101, 110, 99, 101, 95, 109, 111, 100, 101>>

\* A dcgmRunDiag_v<gen> with every buffer filled to capacity, unterminated, and
\* every scalar set to a value of its own.
FullRunDiag(gen) ==
    [version |-> 11, flags |-> 12, debugLevel |-> 13, groupId |-> 14, validate |-> 15,
     testNames |-> [i \in 1..DCGM_MAX_TEST_NAMES |->
                        Buf(ElemCap(gen, "testNames"), ElemCap(gen, "testNames"), 0)],
     testParms |-> [i \in 1..DCGM_MAX_TEST_PARMS |->
                        Buf(ElemCap(gen, "testParms"), ElemCap(gen, "testParms"), 0)],
     fakeGpuList |-> Buf(DCGM_GPU_LIST_LEN, DCGM_GPU_LIST_LEN, 0),
     gpuList |-> Buf(DCGM_GPU_LIST_LEN, DCGM_GPU_LIST_LEN, 0),
     debugLogFile |-> Buf(DCGM_PATH_LEN, DCGM_PATH_LEN, 0),
     statsPath |-> Buf(DCGM_PATH_LEN, DCGM_PATH_LEN, 0),
     configFileContents |-> Buf(DCGM_MAX_CONFIG_FILE_LEN, DCGM_MAX_CONFIG_FILE_LEN, 0),
     throttleMask |-> Buf(DCGM_THROTTLE_MASK_LEN, DCGM_THROTTLE_MASK_LEN, 0),
     pluginPath |-> Buf(DCGM_PATH_LEN, DCGM_PATH_LEN, 0),
     currentIteration |-> 16, totalIterations |-> 17, timeoutSeconds |-> 18,
     _unusedBuf |-> Buf(DCGM_PATH_LEN, DCGM_PATH_LEN, 0),
     failCheckInterval |-> 19]

\* The scenario request: GPU list "0,1", one test name, everything else default.
ScenarioRunDiag ==
    [ZeroRunDiag(7) EXCEPT
        !.gpuList = StrBuf(DCGM_GPU_LIST_LEN, Str_0_1),
        !.testNames[1] = StrBuf(DCGM_MAX_TEST_NAMES_LEN, Str_persistence_mode)]

\* The requests built from base by setting one field, or one array element.
OneFieldSet(gen, base) ==
    UNION {{[base EXCEPT ![f] = v] : v \in ScalarValues} : f \in ScalarFields}
    \cup UNION {{[base EXCEPT ![f] = v] : v \in BufValues(BufferCap(f))} : f \in BufferFields}
    \cup UNION {UNION {{[base EXCEPT ![f][i] = v] : v \in BufValues(ElemCap(gen, f))}
                       : i \in 1..ArrayLen(f)} : f \in ArrayFields}

\* The dcgmRunDiag_v<gen> payloads sent.
RunDiags(gen) ==
    OneFieldSet(gen, ZeroRunDiag(gen)) \cup OneFieldSet(gen, FullRunDiag(gen))
    \cup (IF gen = 7 THEN {ScenarioRunDiag} ELSE {})

\* The request struct a run message of the declared version carries:
\* dcgmRunDiag_v8 in dcgm_diag_msg_run_v9, dcgmRunDiag_v7 in the older ones.
RunDiagGen(version) == IF version = dcgm_diag_msg_run_version9 THEN 8 ELSE 7

SupportedRunVersions ==
    {dcgm_diag_msg_run_version5, dcgm_diag_msg_run_version6, dcgm_diag_msg_run_version7,
     dcgm_diag_msg_run_version8, dcgm_diag_msg_run_version9}

\* Declared versions sent: the supported ones, the one below, the one above, none.
Versions == SupportedRunVersions \cup {0, 4, 10}

ModuleIds == {DcgmModuleIdCore, DcgmModuleIdPolicy, DcgmModuleIdDiag}

SubCommands ==
    {0, DCGM_DIAG_SR_RUN, DCGM_DIAG_SR_STOP, 3, DCGM_CORE_SR_LOGGING_CHANGED,
     DCGM_CORE_SR_PAUSE_RESUME}

ConnectionIds == {21, 22}

Command(ptr, moduleId, subCommand, version, connectionId, runDiag, action, pause) ==
    [ptr |-> ptr,
     header |-> [moduleId |-> moduleId, subCommand |-> subCommand, version |-> version,
                 connectionId |-> connectionId],
     runDiag |-> runDiag, action |-> action, pause |-> pause, diagResponse |-> 0]

\* The placeholder for "no command".
NullCommand == Command(0, 0, 0, 0, 0, ZeroRunDiag(7), 0, FALSE)

\* Every header, over a default payload.
HeaderCommands ==
    {Command(1, m, s, v, c, ZeroRunDiag(RunDiagGen(v)), 0, p) :
        m \in ModuleIds, s \in SubCommands, v \in Versions, c \in ConnectionIds,
        p \in BOOLEAN}

\* Run commands to the diag module, over every payload.
RunCommands ==
    UNION {{Command(1, DcgmModuleIdDiag, DCGM_DIAG_SR_RUN, v, 22, r, 3, FALSE) :
                r \in RunDiags(RunDiagGen(v))}
           : v \in SupportedRunVersions \cup {10}}

\* moduleCommand == nullptr.  No message is behind the pointer; the fields are
\* what a read through it would happen to find.
NullCommands == {[c EXCEPT !.ptr = 0] : c \in HeaderCommands}

Commands == NullCommands \cup HeaderCommands \cup RunCommands

Severities == {"DcgmLoggingSeverityError", "DcgmLoggingSeverityDebug"}

Envs ==
    [run : {DCGM_ST_OK, DCGM_ST_NVVS_ERROR}, stop : {DCGM_ST_OK, DCGM_ST_NOT_RUNNING},
     severity : Severities]

\* The answers a call with this command can come to ask for: the logger's
\* for a change of the logging severity, the manager's to a run and to a
\* stop of the command's subcommand; an answer never asked for is left at
\* its first value.
EnvsFor(cmd) ==
    LET asks(f) ==
            CASE f = "severity" -> cmd.header.subCommand = DCGM_CORE_SR_LOGGING_CHANGED
              [] f = "run" -> cmd.header.subCommand = DCGM_DIAG_SR_RUN
              [] f = "stop" -> cmd.header.subCommand = DCGM_DIAG_SR_STOP
    IN  {e \in Envs :
            /\ asks("run") \/ e.run = DCGM_ST_OK
            /\ asks("stop") \/ e.stop = DCGM_ST_OK
            /\ asks("severity") \/ e.severity = "DcgmLoggingSeverityError"}

\* The commands other threads pass while a call is under way: pause,
\* resume, a change of the logging severity, stop, and a run of the latest
\* version.
OtherCommands ==
    {Command(1, DcgmModuleIdCore, DCGM_CORE_SR_PAUSE_RESUME, 0, 21, ZeroRunDiag(7), 0, TRUE),
     Command(1, DcgmModuleIdCore, DCGM_CORE_SR_LOGGING_CHANGED, 0, 21, ZeroRunDiag(7), 0, FALSE),
     Command(1, DcgmModuleIdCore, DCGM_CORE_SR_PAUSE_RESUME, 0, 21, ZeroRunDiag(7), 0, FALSE),
     Command(1, DcgmModuleIdDiag, DCGM_DIAG_SR_STOP, 0, 21, ZeroRunDiag(7), 0, FALSE),
     Command(1, DcgmModuleIdDiag, DCGM_DIAG_SR_RUN, dcgm_diag_msg_run_version9, 21,
             ZeroRunDiag(8), 3, FALSE)}

\* No call of another thread has been handled while this one is under way.
NoOther == [ret |-> "none", loads |-> <<>>]

(***************************************************************************)
(* The plugin interface (src/nvvs/include/PluginInterface.h): the          *)
(* structures a plugin fills and the calls the host makes.                 *)
(***************************************************************************)
\* The interface version the host was built against.
DCGM_DIAG_PLUGIN_INTERFACE_VERSION == 5

\* Capacities of the arrays of dcgmDiagResults_t and dcgmDiagCustomStats_t,
\* scaled down.
DCGM_MAX_NUM_DEVICES == 2

DCGM_DIAG_MAX_ERRORS == 2

DCGM_DIAG_MAX_INFO == 2

DCGM_DIAG_MAX_CUSTOM_STATS == 2

\* The versions a plugin may have been compiled against: an older one, the
\* host's, a newer one.
PluginVersions ==
    (DCGM_DIAG_PLUGIN_INTERFACE_VERSION - 1)..(DCGM_DIAG_PLUGIN_INTERFACE_VERSION + 1)

\* void *userData before InitializePlugin has written it.
NullUserData == "nullptr"

\* The values a plugin may write to *userData.
UserDataTokens == {NullUserData, "pluginA", "pluginB"}

DCGM_ST_PLUGIN_EXCEPTION == "DCGM_ST_PLUGIN_EXCEPTION"

\* What InitializePlugin may come to: set up, an error, or the host's timeout
\* running out.
InitializeOutcomes == {DCGM_ST_OK, DCGM_ST_PLUGIN_EXCEPTION, "timeout"}

\* The ids a plugin may set a result for: one more than the array holds.
DeviceIds == 0..DCGM_MAX_NUM_DEVICES

\* The most custom stats a plugin produces: more than two retrievals hold.
MaxStatsProduced == 2 * DCGM_DIAG_MAX_CUSTOM_STATS + 1

\* One call on the plugin: the function, the userData passed, what came back.
PluginCall(fn, userData, ret) == [fn |-> fn, userData |-> userData, ret |-> ret]

\* The functions that take the userData InitializePlugin wrote.
UserDataFunctions == {"RunTest", "RetrieveCustomStats", "RetrieveResults", "ShutdownPlugin"}

\* dcgmDiagCustomStats_t and dcgmDiagResults_t as zero-initialised.
NoCustomStats == [moreStats |-> 0, numStats |-> 0, stats |-> <<>>]

NoDiagResults == [numResults |-> 0, numErrors |-> 0, numInfo |-> 0]

\* Mutant: the plugin hands over what fits and forgets the rest.
FillCustomStats_Truncates(produced, cursor) ==
    LET n == Min(produced - cursor, DCGM_DIAG_MAX_CUSTOM_STATS)
    IN  [moreStats |-> 0, numStats |-> n, stats |-> [i \in 1..n |-> cursor + i]]

\* The plugin's side of RetrieveCustomStats: the stats from the cursor on, as
\* many as the array holds; moreStats is 1 when the diag should ask again.
FillCustomStats(produced, cursor) ==
    LET n == Min(produced - cursor, DCGM_DIAG_MAX_CUSTOM_STATS)
    IN  [moreStats |-> IF produced - cursor > n THEN 1 ELSE 0,
         numStats |-> n,
         stats |-> [i \in 1..n |-> cursor + i]]

\* Mutant: the counts are those of the plugin's own lists.
FillResults_Unbounded(gpus, errors, info) ==
    [numResults |-> Cardinality(gpus), numErrors |-> errors, numInfo |-> info]

\* The plugin's side of RetrieveResults: each list copied up to the capacity
\* of its array.
FillResults(gpus, errors, info) ==
    [numResults |-> Min(Cardinality(gpus), DCGM_MAX_NUM_DEVICES),
     numErrors |-> Min(errors, DCGM_DIAG_MAX_ERRORS),
     numInfo |-> Min(info, DCGM_DIAG_MAX_INFO)]

(***************************************************************************)
(* The Software plugin: the checks that read telemetry, GPU by GPU.        *)
(***************************************************************************)
\* Number of GPUs the plugin was initialised for.
NumGpus == 2

\* m_gpuList: the ids of those GPUs (3, 4, ...), in list order.
m_gpuList == [i \in 1..NumGpus |-> i + 2]

GpuIds == {m_gpuList[i] : i \in 1..NumGpus}

DCGM_ST_NOT_SUPPORTED == "DCGM_ST_NOT_SUPPORTED"

DCGM_ST_NO_DATA == "DCGM_ST_NO_DATA"

\* The blank value of a 64-bit integer field, scaled to the model's integers.
DCGM_INT64_BLANK == 2147483632

DCGM_INT64_IS_BLANK(v) == v >= DCGM_INT64_BLANK

DCGM_LIMIT_MAX_RETIRED_PAGES == 64

NVVS_RESULT_PASS == "NVVS_RESULT_PASS"

NVVS_RESULT_WARN == "NVVS_RESULT_WARN"

NVVS_RESULT_FAIL == "NVVS_RESULT_FAIL"

NVVS_RESULT_SKIP == "NVVS_RESULT_SKIP"

\* The result of a GPU no SetResult call has reached.
NoResultSet == "none"

\* What m_dcgmRecorder.GetCurrentFieldValue answers: its return, and the
\* status and value (for a blob, its first byte) of the field value it fills.
Answer(ret, status, value) == [ret |-> ret, status |-> status, value |-> value]

\* The answers the model draws from: the query fails; the value is 0, 1,
\* one below the retired-pages limit, or blank; the value's status is not OK.
Answers ==
    {Answer(DCGM_ST_NO_DATA, DCGM_ST_OK, 0)}
    \cup {Answer(DCGM_ST_OK, DCGM_ST_OK, v) :
             v \in {0, 1, DCGM_LIMIT_MAX_RETIRED_PAGES - 1, DCGM_INT64_BLANK}}
    \cup {Answer(DCGM_ST_OK, DCGM_ST_NOT_SUPPORTED, 1), Answer(DCGM_ST_OK, DCGM_ST_NO_DATA, 0)}

\* status != DCGM_ST_OK || DCGM_INT64_IS_BLANK(value.i64)
Unreadable(ans) == ans.status # DCGM_ST_OK \/ DCGM_INT64_IS_BLANK(ans.value)

\* The plugin constructed with the GPU information of the GPUs of the run:
\* its GPU list, its results, errors, info notes and warnings, and the
\* global stop flag of a process that has just started.
NewPlugin ==
    [gpuList |-> m_gpuList, results |-> [g \in GpuIds |-> NoResultSet], errors |-> <<>>,
     info |-> <<>>, warnings |-> <<>>, stop |-> 0]

\* AddErrorForGpu(SW_PLUGIN_NAME, gpuId, d), d built for code (and, for a
\* failed query, the name of the field).
AddErrorForGpu(p, gpuId, code, field) ==
    [p EXCEPT !.errors = Append(@, [gpuId |-> gpuId, code |-> code, field |-> field])]

\* AddInfo(SW_PLUGIN_NAME, info)
AddInfo(p, gpuId, status) ==
    [p EXCEPT !.info = Append(@, [gpuId |-> gpuId, status |-> status])]

\* DcgmError::GpuIdTag::Unknown: an error or a note tied to no GPU.
UnknownGpu == "GpuIdTag::Unknown"

\* AddError(SW_PLUGIN_NAME, d), d built for code and what it names.
AddError(p, code, detail) ==
    [p EXCEPT !.errors = Append(@, [gpuId |-> UnknownGpu, code |-> code, field |-> detail])]

\* AddWarning(SW_PLUGIN_NAME, d.GetMessage()), d built for code and gpuId.
AddWarning(p, gpuId, code) ==
    [p EXCEPT !.warnings = Append(@, [gpuId |-> gpuId, code |-> code])]

\* SetResult(SW_PLUGIN_NAME, res): the result of the test, for all its GPUs.
SetResult(p, res) == [p EXCEPT !.results = [g \in DOMAIN p.results |-> res]]

\* Software::Software(handle, gpuInfo): without GPU information the plugin
\* has an error and no GPU in its list; with it InitializeForGpuList sets
\* the list and the results up. The constructor leaves the stop flag, which
\* is the process's, as it is.
Software(gpuInfoGiven, stop) ==
    IF gpuInfoGiven
    THEN [NewPlugin EXCEPT !.stop = stop]
    ELSE AddError([NewPlugin EXCEPT !.gpuList = <<>>, !.results = <<>>, !.stop = stop],
                  "DCGM_FR_INTERNAL", "No GPU information specified")

\* SetResultForGpu(SW_PLUGIN_NAME, gpuId, res)
SetResultForGpu(p, gpuId, res) == [p EXCEPT !.results[gpuId] = res]

\* main_should_stop.store(1)
StoreStop(p) == [p EXCEPT !.stop = 1]

\* What one query of an iteration leads to: the plugin afterwards,
\* retiredPagesTotal, and the next query of this GPU or "nextGpu" (continue,
\* or the end of the loop body).
Step(p, total, next) == [p |-> p, total |-> total, next |-> next]

\* Mutant: a failed query is taken for a hardware fault and stops the run.
FieldQueryFailed_Stops(p, gpuId, field, total) ==
    Step(StoreStop(SetResult(AddErrorForGpu(p, gpuId, "DCGM_FR_FIELD_QUERY", field),
                             NVVS_RESULT_FAIL)),
         total, "nextGpu")

\* Mutant: a failed query clears the stop flag, as no hardware fault was seen.
FieldQueryFailed_ClearsStop(p, gpuId, field, total) ==
    Step([SetResult(AddErrorForGpu(p, gpuId, "DCGM_FR_FIELD_QUERY", field), NVVS_RESULT_FAIL)
             EXCEPT !.stop = 0],
         total, "nextGpu")

\* ret != DCGM_ST_OK in a check that reports through SetResult.
FieldQueryFailed(p, gpuId, field, total) ==
    Step(SetResult(AddErrorForGpu(p, gpuId, "DCGM_FR_FIELD_QUERY", field), NVVS_RESULT_FAIL),
         total, "nextGpu")

\* Mutant: a pending retirement fails the test but does not stop the run.
PendingRetirement_NoStop(p, gpuId, ans, total) ==
    LET code == IF /\ ans.ret = DCGM_ST_OK
                   /\ ans.value > 0
                   /\ ~DCGM_INT64_IS_BLANK(ans.value)
                THEN "DCGM_FR_DBE_PENDING_PAGE_RETIREMENTS"
                ELSE "DCGM_FR_PENDING_PAGE_RETIREMENTS"
    IN  Step(SetResult(AddErrorForGpu(p, gpuId, code, ""), NVVS_RESULT_FAIL), total, "nextGpu")

\* checkPageRetirement with a pending retirement count > 0: ans is the
\* answer to the query of the volatile double-bit-error total.
PendingRetirement(p, gpuId, ans, total) ==
    LET code == IF /\ ans.ret = DCGM_ST_OK
                   /\ ans.value > 0
                   /\ ~DCGM_INT64_IS_BLANK(ans.value)
                THEN "DCGM_FR_DBE_PENDING_PAGE_RETIREMENTS"
                ELSE "DCGM_FR_PENDING_PAGE_RETIREMENTS"
    IN  Step(StoreStop(SetResult(AddErrorForGpu(p, gpuId, code, ""), NVVS_RESULT_FAIL)),
             total, "nextGpu")

\* Mutant: the limit itself is still allowed.
RetiredPagesLimit_Above(p, gpuId, retiredPagesTotal) ==
    IF retiredPagesTotal > DCGM_LIMIT_MAX_RETIRED_PAGES
    THEN Step(StoreStop(SetResult(AddErrorForGpu(p, gpuId, "DCGM_FR_RETIRED_PAGES_LIMIT", ""),
                                  NVVS_RESULT_FAIL)),
              retiredPagesTotal, "nextGpu")
    ELSE Step(p, retiredPagesTotal, "nextGpu")

\* checkPageRetirement, the end of the loop body: the total of the retired
\* pages read is held against the limit.
RetiredPagesLimit(p, gpuId, retiredPagesTotal) ==
    IF retiredPagesTotal >= DCGM_LIMIT_MAX_RETIRED_PAGES
    THEN Step(StoreStop(SetResult(AddErrorForGpu(p, gpuId, "DCGM_FR_RETIRED_PAGES_LIMIT", ""),
                                  NVVS_RESULT_FAIL)),
              retiredPagesTotal, "nextGpu")
    ELSE Step(p, retiredPagesTotal, "nextGpu")

\* Software::checkPageRetirement: the body of the loop for one GPU, from the
\* answer to query q to the next query.
checkPageRetirement(q, gpuId, ans, p, total) ==
    CASE q = "DCGM_FI_DEV_RETIRED_PENDING" ->
            IF ans.ret # DCGM_ST_OK
            THEN FieldQueryFailed(p, gpuId, "retired_pages_pending", total)
            ELSE IF Unreadable(ans) THEN Step(p, 0, "DCGM_FI_DEV_RETIRED_DBE")
            ELSE IF ans.value > 0 THEN Step(p, total, "DCGM_FI_DEV_ECC_DBE_VOL_TOTAL")
            ELSE Step(p, 0, "DCGM_FI_DEV_RETIRED_DBE")
      [] q = "DCGM_FI_DEV_ECC_DBE_VOL_TOTAL" -> PendingRetirement(p, gpuId, ans, total)
      [] q = "DCGM_FI_DEV_RETIRED_DBE" ->
            IF ans.ret # DCGM_ST_OK
            THEN FieldQueryFailed(p, gpuId, "retired_pages_dbe", total)
            ELSE Step(p, IF Unreadable(ans) THEN total ELSE total + ans.value,
                      "DCGM_FI_DEV_RETIRED_SBE")
      [] q = "DCGM_FI_DEV_RETIRED_SBE" ->
            IF ans.ret # DCGM_ST_OK
            THEN FieldQueryFailed(p, gpuId, "retired_pages_sbe", total)
            ELSE RetiredPagesLimit(p, gpuId,
                                   IF Unreadable(ans) THEN total ELSE total + ans.value)

\* ret != DCGM_ST_OK in checkRowRemapping, which reports per GPU.
RowRemapQueryFailed(p, gpuId, field, total) ==
    Step(SetResultForGpu(AddErrorForGpu(p, gpuId, "DCGM_FR_FIELD_QUERY", field), gpuId,
                         NVVS_RESULT_FAIL),
         total, "nextGpu")

\* Mutant: the failure is reported as the other checks do, for the whole test.
RowRemapDetected_AllGpus(p, gpuId, code, total) ==
    Step(StoreStop(SetResult(AddErrorForGpu(p, gpuId, code, ""), NVVS_RESULT_FAIL)),
         total, "nextGpu")

\* checkRowRemapping has found a row remap failure or a pending remap on
\* gpuId: the error, the result of that GPU, the stop flag.
RowRemapDetected(p, gpuId, code, total) ==
    Step(StoreStop(SetResultForGpu(AddErrorForGpu(p, gpuId, code, ""), gpuId,
                                   NVVS_RESULT_FAIL)),
         total, "nextGpu")

\* Software::checkRowRemapping: the body of the loop for one GPU.
checkRowRemapping(q, gpuId, ans, p, total) ==
    CASE q = "DCGM_FI_DEV_ROW_REMAP_FAILURE" ->
            IF ans.ret # DCGM_ST_OK
            THEN RowRemapQueryFailed(p, gpuId, "row_remap_failure", total)
            ELSE IF Unreadable(ans) THEN Step(p, total, "DCGM_FI_DEV_ROW_REMAP_PENDING")
            ELSE IF ans.value > 0
            THEN RowRemapDetected(p, gpuId, "DCGM_FR_ROW_REMAP_FAILURE", total)
            ELSE Step(p, total, "DCGM_FI_DEV_ROW_REMAP_PENDING")
      [] q = "DCGM_FI_DEV_ROW_REMAP_PENDING" ->
            IF ans.ret # DCGM_ST_OK
            THEN RowRemapQueryFailed(p, gpuId, "row_remap_pending", total)
            ELSE IF Unreadable(ans) THEN Step(p, total, "nextGpu")
            ELSE IF ans.value > 0 THEN Step(p, total, "DCGM_FI_DEV_UNCORRECTABLE_REMAPPED_ROWS")
            ELSE Step(p, total, "nextGpu")
      [] q = "DCGM_FI_DEV_UNCORRECTABLE_REMAPPED_ROWS" ->
            LET code == IF /\ ans.ret = DCGM_ST_OK
                           /\ ans.value > 0
                           /\ ~DCGM_INT64_IS_BLANK(ans.value)
                        THEN "DCGM_FR_UNCORRECTABLE_ROW_REMAP"
                        ELSE "DCGM_FR_PENDING_ROW_REMAP"
            IN  RowRemapDetected(p, gpuId, code, total)

\* Mutant: every status other than OK skips the test.
checkInforom_SkipsOnAnyStatus(q, gpuId, ans, p, total) ==
    IF ans.ret # DCGM_ST_OK
    THEN FieldQueryFailed(p, gpuId, "inforom_config_valid", total)
    ELSE IF \/ ans.status # DCGM_ST_OK
            \/ ans.status = DCGM_ST_OK /\ DCGM_INT64_IS_BLANK(ans.value)
    THEN Step(SetResult(AddInfo(p, gpuId, ans.status), NVVS_RESULT_SKIP), total, "nextGpu")
    ELSE IF ans.value = 0
    THEN Step(SetResult(AddErrorForGpu(p, gpuId, "DCGM_FR_CORRUPT_INFOROM", ""),
                        NVVS_RESULT_FAIL),
              total, "nextGpu")
    ELSE Step(p, total, "nextGpu")

\* Software::checkInforom: the body of the loop for one GPU.
checkInforom(q, gpuId, ans, p, total) ==
    IF ans.ret # DCGM_ST_OK
    THEN FieldQueryFailed(p, gpuId, "inforom_config_valid", total)
    ELSE IF \/ ans.status = DCGM_ST_NOT_SUPPORTED
            \/ ans.status = DCGM_ST_OK /\ DCGM_INT64_IS_BLANK(ans.value)
    THEN Step(SetResult(AddInfo(p, gpuId, ans.status), NVVS_RESULT_SKIP), total, "nextGpu")
    ELSE IF ans.status # DCGM_ST_OK
    THEN Step(AddInfo(p, gpuId, ans.status), total, "nextGpu")
    ELSE IF ans.value = 0
    THEN Step(SetResult(AddErrorForGpu(p, gpuId, "DCGM_FR_CORRUPT_INFOROM", ""),
                        NVVS_RESULT_FAIL),
              total, "nextGpu")
    ELSE Step(p, total, "nextGpu")

\* Mutant: a running graphics process warns only where nothing has failed.
checkForGraphicsProcesses_KeepsFail(q, gpuId, ans, p, total) ==
    IF ans.ret # DCGM_ST_OK
    THEN FieldQueryFailed(p, gpuId, "graphics_pids", total)
    ELSE IF ans.status # DCGM_ST_OK
    THEN Step(AddInfo(p, gpuId, ans.status), total, "nextGpu")
    ELSE IF ans.value # 0
    THEN Step(IF \E g \in DOMAIN p.results : p.results[g] = NVVS_RESULT_FAIL
              THEN AddErrorForGpu(p, gpuId, "DCGM_FR_GRAPHICS_PROCESSES", "")
              ELSE SetResult(AddErrorForGpu(p, gpuId, "DCGM_FR_GRAPHICS_PROCESSES", ""),
                             NVVS_RESULT_WARN),
              total, "nextGpu")
    ELSE Step(p, total, "nextGpu")

\* Software::checkForGraphicsProcesses: the body of the loop for one GPU.
checkForGraphicsProcesses(q, gpuId, ans, p, total) ==
    IF ans.ret # DCGM_ST_OK
    THEN FieldQueryFailed(p, gpuId, "graphics_pids", total)
    ELSE IF ans.status # DCGM_ST_OK
    THEN Step(AddInfo(p, gpuId, ans.status), total, "nextGpu")
    ELSE IF ans.value # 0
    THEN Step(SetResult(AddErrorForGpu(p, gpuId, "DCGM_FR_GRAPHICS_PROCESSES", ""),
                        NVVS_RESULT_WARN),
              total, "nextGpu")
    ELSE Step(p, total, "nextGpu")

\* The loop body of the check named check.
CheckStep(check, q, gpuId, ans, p, total) ==
    CASE check = "checkPageRetirement" -> checkPageRetirement(q, gpuId, ans, p, total)
      [] check = "checkRowRemapping" -> checkRowRemapping(q, gpuId, ans, p, total)
      [] check = "checkInforom" -> checkInforom(q, gpuId, ans, p, total)
      [] check = "checkForGraphicsProcesses" ->
            checkForGraphicsProcesses(q, gpuId, ans, p, total)

\* The first query of the loop body.
FirstQuery(check) ==
    CASE check = "checkPageRetirement" -> "DCGM_FI_DEV_RETIRED_PENDING"
      [] check = "checkRowRemapping" -> "DCGM_FI_DEV_ROW_REMAP_FAILURE"
      [] check = "checkInforom" -> "DCGM_FI_DEV_INFOROM_CONFIG_VALID"
      [] check = "checkForGraphicsProcesses" -> "DCGM_FI_DEV_GRAPHICS_PIDS"

\* The values of the do-test parameter that select a check reading telemetry.
SoftwareTests == {"page_retirement", "inforom", "graphics_processes"}

\* Software::Go: the check a test name starts with ...
FirstCheck(test) ==
    CASE test = "page_retirement" -> "checkPageRetirement"
      [] test = "inforom" -> "checkInforom"
      [] test = "graphics_processes" -> "checkForGraphicsProcesses"

\* ... and the check that follows one, "none" when Go returns.
NextCheck(test, check) ==
    IF test = "page_retirement" /\ check = "checkPageRetirement"
    THEN "checkRowRemapping"
    ELSE "none"

(***************************************************************************)
(* The Software plugin: the checks that read the system, and Go.           *)
(***************************************************************************)
\* What a check hands back to Go: the plugin afterwards and its return.
Checked(p, ret) == [p |-> p, ret |-> ret]

\* libraryCheck_t, and a selector outside it.
LibraryChecks == {"CHECK_NVML", "CHECK_CUDA", "CHECK_CUDATK", "CHECK_UNKNOWN"}

\* The libraries of each set, in the order they are probed, each named by
\* the macro that holds its soname.
LibrariesOf(checkLib) ==
    CASE checkLib = "CHECK_NVML" -> <<"DCGM_NVML_SONAME">>
      [] checkLib = "CHECK_CUDA" -> <<"DCGM_CUDA_SONAME">>
      [] checkLib = "CHECK_CUDATK" -> <<"DCGM_CUDART_SONAME", "DCGM_CUBLAS_SONAME">>
      [] OTHER -> <<>>

AllLibraries == {"DCGM_NVML_SONAME", "DCGM_CUDA_SONAME", "DCGM_CUDART_SONAME", "DCGM_CUBLAS_SONAME"}

\* The diagnostics of each set.
DiagnosticsOf(checkLib) ==
    CASE checkLib = "CHECK_NVML" ->
            <<"The NVML main library could not be found in the default search paths.",
              "Please check to see if it is installed or that LD_LIBRARY_PATH contains the path to DCGM_NVML_SONAME",
              "Skipping remainder of tests.">>
      [] checkLib = "CHECK_CUDA" ->
            <<"The CUDA main library could not be found.Skipping remainder of tests.">>
      [] checkLib = "CHECK_CUDATK" ->
            <<"The CUDA Toolkit libraries could not be found.",
              "Is LD_LIBRARY_PATH set to the 64-bit library path? (usually /usr/local/cuda/lib64)",
              "Some tests will not run.">>
      [] OTHER -> <<>>

\* The result a set's failure is reported with.
FailureCodeOf(checkLib) ==
    IF checkLib = "CHECK_NVML" THEN NVVS_RESULT_FAIL ELSE NVVS_RESULT_WARN

\* The loop over the libraries from the i-th on: findLib, and for a library
\* that cannot be opened the error and the result.
RECURSIVE ProbeLibraries(_, _, _, _, _)
ProbeLibraries(libraries, i, openable, failureCode, p) ==
    IF i > Len(libraries) THEN p
    ELSE ProbeLibraries(libraries, i + 1, openable, failureCode,
                        IF libraries[i] \in openable THEN p
                        ELSE SetResult(AddError(p, "DCGM_FR_CANNOT_OPEN_LIB", libraries[i]),
                                       failureCode))

\* The loop over the diagnostics from the i-th on.
RECURSIVE AddDiagnostics(_, _, _)
AddDiagnostics(diagnostics, i, p) ==
    IF i > Len(diagnostics) THEN p
    ELSE AddDiagnostics(diagnostics, i + 1, AddInfo(p, UnknownGpu, diagnostics[i]))

\* Mutant: the diagnostics follow the probes whether or not one failed.
checkLibraries_AlwaysDiagnoses(checkLib, openable, p) ==
    IF checkLib \notin {"CHECK_NVML", "CHECK_CUDA", "CHECK_CUDATK"}
    THEN Checked(SetResult(AddError(p, "DCGM_FR_BAD_PARAMETER", "checkLibraries"),
                           NVVS_RESULT_FAIL), TRUE)
    ELSE LET libraries == LibrariesOf(checkLib)
             failure   == \E i \in 1..Len(libraries) : libraries[i] \notin openable
             probed    == ProbeLibraries(libraries, 1, openable, FailureCodeOf(checkLib), p)
         IN  Checked(AddDiagnostics(DiagnosticsOf(checkLib), 1, probed), failure)

\* Software::checkLibraries(checkLib), openable being the libraries dlopen
\* finds.
checkLibraries(checkLib, openable, p) ==
    IF checkLib \notin {"CHECK_NVML", "CHECK_CUDA", "CHECK_CUDATK"}
    THEN Checked(SetResult(AddError(p, "DCGM_FR_BAD_PARAMETER", "checkLibraries"),
                           NVVS_RESULT_FAIL), TRUE)
    ELSE LET libraries == LibrariesOf(checkLib)
             failure   == \E i \in 1..Len(libraries) : libraries[i] \notin openable
             probed    == ProbeLibraries(libraries, 1, openable, FailureCodeOf(checkLib), p)
         IN  Checked(IF failure THEN AddDiagnostics(DiagnosticsOf(checkLib), 1, probed)
                     ELSE probed,
                     failure)

\* One entry of m_gpuInfo.gpus: the GPU and its persistence mode setting.
GpuInfoEntry(gpuId, persistenceModeEnabled) ==
    [gpuId |-> gpuId, persistenceModeEnabled |-> persistenceModeEnabled]

\* The inner loop of checkPersistenceMode: some entry of the GPU info is of
\* this GPU and has persistence mode disabled.
PersistenceDisabled(gpuInfo, gpuId) ==
    \E sindex \in 1..Len(gpuInfo) :
        gpuInfo[sindex].gpuId = gpuId /\ ~gpuInfo[sindex].persistenceModeEnabled

\* Mutant: a GPU with persistence mode disabled is an error of the test.
RECURSIVE checkPersistenceModeFrom_Errors(_, _, _)
checkPersistenceModeFrom_Errors(gpuInfo, idx, p) ==
    IF idx > Len(p.gpuList) THEN p
    ELSE checkPersistenceModeFrom_Errors(gpuInfo, idx + 1,
             IF PersistenceDisabled(gpuInfo, p.gpuList[idx])
             THEN SetResult(AddErrorForGpu(p, p.gpuList[idx], "DCGM_FR_PERSISTENCE_MODE", ""),
                            NVVS_RESULT_WARN)
             ELSE p)

\* The outer loop of checkPersistenceMode, from the idx-th GPU of m_gpuList.
RECURSIVE checkPersistenceModeFrom(_, _, _)
checkPersistenceModeFrom(gpuInfo, idx, p) ==
    IF idx > Len(p.gpuList) THEN p
    ELSE checkPersistenceModeFrom(gpuInfo, idx + 1,
             IF PersistenceDisabled(gpuInfo, p.gpuList[idx])
             THEN SetResult(AddWarning(p, p.gpuList[idx], "DCGM_FR_PERSISTENCE_MODE"),
                            NVVS_RESULT_WARN)
             ELSE p)

\* Software::checkPersistenceMode
checkPersistenceMode(gpuInfo, p) == Checked(checkPersistenceModeFrom(gpuInfo, 1, p), 0)

\* The loop of checkDenylist over the driver links found, from the i-th on:
\* a link to a denylisted driver adds an error (checkDriverPathDenylist
\* returns 1), a link that cannot be read returns its errno; both fail.
RECURSIVE checkDriverPaths(_, _, _)
checkDriverPaths(links, i, p) ==
    IF i > Len(links) THEN p
    ELSE checkDriverPaths(links, i + 1,
             CASE links[i] = "nouveau" ->
                     SetResult(AddError(p, "DCGM_FR_DENYLISTED_DRIVER", "nouveau"),
                               NVVS_RESULT_FAIL)
               [] links[i] = "EACCES" -> SetResult(p, NVVS_RESULT_FAIL)
               [] OTHER -> p)

\* Software::checkDenylist
checkDenylist(links, p) ==
    LET status == \E i \in 1..Len(links) : links[i] \in {"nouveau", "EACCES"}
        walked == checkDriverPaths(links, 1, p)
    IN  Checked(IF status THEN walked ELSE SetResult(walked, NVVS_RESULT_PASS), status)

\* isdigit
IsDigit(c) == c \in {"0", "1", "2", "3", "4", "5", "6", "7", "8", "9"}

\* Software::CountDevEntry(entryName), the name a sequence of characters:
\* "nvidia" followed by digits only, or by nothing.
CountDevEntry(entryName) ==
    /\ Len(entryName) >= 6
    /\ SubSeq(entryName, 1, 6) = <<"n", "v", "i", "d", "i", "a">>
    /\ \A i \in 7..Len(entryName) : IsDigit(entryName[i])

\* dirName
DirName == <<"/", "d", "e", "v">>

\* A file access() is asked about, and whether it grants reading it.
DevEntry(file, readable) == [file |-> file, readable |-> readable]

\* The entry of the directory is one CountDevEntry counts.
Counted(ent) == CountDevEntry(ent.d_name)

\* The entries of /dev that the loop over readdir counts, in the order
\* readdir returns them, each with the path given to access(): the name of
\* the directory, "/", and the name readdir returned.
DevEntries(dir) ==
    LET counted == SelectSeq(dir, Counted)
    IN  [i \in 1..Len(counted) |->
            DevEntry(DirName \o <<"/">> \o counted[i].d_name, counted[i].readable)]

\* The loop over accessWarnings from the i-th entry on: one error for every
\* entry access() refused, naming its file.
RECURSIVE AddAccessWarnings(_, _, _)
AddAccessWarnings(entries, i, p) ==
    IF i > Len(entries) THEN p
    ELSE AddAccessWarnings(entries, i + 1,
             IF entries[i].readable THEN p
             ELSE AddError(p, "DCGM_FR_NO_ACCESS_TO_FILE", entries[i].file))

\* Software::checkPermissions; dev tells what the system answers: whether
\* GetAllDevices succeeds and how many GPUs it lists, whether /dev opens,
\* the entries readdir returns with what access() says of each, and whether
\* the working directory is writable.
checkPermissions(checkFileCreation, skipDeviceTest, dev, p) ==
    IF ~dev.devicesListed THEN Checked(p, FALSE)
    ELSE LET passed == SetResult(p, NVVS_RESULT_PASS)
             entries == DevEntries(dev.dir)
             deviceCount == Cardinality({i \in 1..Len(entries) : entries[i].readable})
             counted ==
                 IF skipDeviceTest \/ ~(deviceCount < dev.gpuCount) THEN passed
                 ELSE SetResult(
                          AddAccessWarnings(
                              entries, 1,
                              AddError(passed, "DCGM_FR_DEVICE_COUNT_MISMATCH", "")),
                          NVVS_RESULT_WARN)
         IN  IF ~skipDeviceTest /\ ~dev.devOpens THEN Checked(passed, FALSE)
             ELSE IF checkFileCreation /\ ~dev.writable
             THEN Checked(AddError(counted, "DCGM_FR_FILE_CREATE_PERMISSIONS", ""), FALSE)
             ELSE Checked(counted, FALSE)

\* The variables checkForBadEnvVaribles looks for, in its order.
checkKeys ==
    <<"NSIGHT_CUDA_DEBUGGER", "CUDA_INJECTION32_PATH", "CUDA_INJECTION64_PATH",
      "CUDA_AUTO_BOOST", "CUDA_ENABLE_COREDUMP_ON_EXCEPTION", "CUDA_COREDUMP_FILE",
      "CUDA_DEVICE_WAITS_ON_EXCEPTION", "CUDA_PROFILE", "COMPUTE_PROFILE", "OPENCL_PROFILE">>

\* The loop of checkForBadEnvVaribles from the i-th key on.
RECURSIVE checkKeysFrom(_, _, _)
checkKeysFrom(environ, i, p) ==
    IF i > Len(checkKeys) THEN p
    ELSE checkKeysFrom(environ, i + 1,
             IF checkKeys[i] \in environ
             THEN SetResult(AddError(p, "DCGM_FR_BAD_CUDA_ENV", checkKeys[i]),
                            NVVS_RESULT_WARN)
             ELSE p)

\* Software::checkForBadEnvVaribles
checkForBadEnvVaribles(environ, p) == Checked(checkKeysFrom(environ, 1, p), 0)

\* The parameters Go reads.
ParameterNames ==
    {"PS_RUN_IF_GOM_ENABLED", "SW_STR_DO_TEST", "SW_STR_REQUIRE_PERSISTENCE",
     "SW_STR_SKIP_DEVICE_TEST", "SW_STR_CHECK_FILE_CREATION"}

\* A parameter the caller does not supply, or the defaults do not hold.
Absent == "absent"

\* m_infoStruct.defaultTestParameters, as the constructor fills it.
DefaultTestParameters ==
    [n \in ParameterNames |->
        CASE n = "PS_RUN_IF_GOM_ENABLED" -> "True"
          [] n = "SW_STR_DO_TEST" -> "None"
          [] n = "SW_STR_REQUIRE_PERSISTENCE" -> "True"
          [] n = "SW_STR_SKIP_DEVICE_TEST" -> "False"
          [] OTHER -> Absent]

\* TestParameters::SetFromStruct: the parameters supplied replace the defaults.
SetFromStruct(testParameters, tpStruct) ==
    [n \in ParameterNames |-> IF tpStruct[n] = Absent THEN testParameters[n] ELSE tpStruct[n]]

\* TestParameters::GetBoolFromString
GetBoolFromString(testParameters, n) == testParameters[n] = "True"

\* The parameters a caller supplies: these, the others absent.
Supplied(doTest, requirePersistence, skipDeviceTest, checkFileCreation) ==
    [n \in ParameterNames |->
        CASE n = "SW_STR_DO_TEST" -> doTest
          [] n = "SW_STR_REQUIRE_PERSISTENCE" -> requirePersistence
          [] n = "SW_STR_SKIP_DEVICE_TEST" -> skipDeviceTest
          [] n = "SW_STR_CHECK_FILE_CREATION" -> checkFileCreation
          [] OTHER -> Absent]

\* The test names Go knows.
KnownTests ==
    {"denylist", "permissions", "libraries_nvml", "libraries_cuda", "libraries_cudatk",
     "persistence_mode", "env_variables", "graphics_processes", "page_retirement", "inforom"}

\* The values of the do-test parameter supplied: the known names, the
\* default's value, names Go does not know, none.
DoTestValues == KnownTests \cup {"None", "Inforom", "software", Absent}

\* The parameter sets supplied: every do-test value alone, and with the
\* parameters the persistence and the permissions tests read.
SuppliedParameters ==
    {Supplied(d, Absent, Absent, Absent) : d \in DoTestValues}
    \cup {Supplied(d, r, Absent, Absent) :
             d \in {"persistence_mode", "inforom", Absent}, r \in {"True", "False"}}
    \cup {Supplied("permissions", Absent, k, c) : k \in {Absent, "True"}, c \in {Absent, "True"}}

\* An entry readdir returns, and whether access() grants reading the file.
DirEntry(d_name, readable) == [d_name |-> d_name, readable |-> readable]

\* The names of the entries of /dev drawn from: nvidia0, nvidia1, nvidia7,
\* nvidia, nvidiactl.
DevNames ==
    <<<<"n", "v", "i", "d", "i", "a", "0">>, <<"n", "v", "i", "d", "i", "a", "1">>,
      <<"n", "v", "i", "d", "i", "a", "7">>, <<"n", "v", "i", "d", "i", "a">>,
      <<"n", "v", "i", "d", "i", "a", "c", "t", "l">>>>

\* What the system answers to the checks that read it: the driver links
\* found, /dev and the working directory, the libraries dlopen finds, the
\* GPU info the plugin was constructed with, the environment variables set.
QuietSystem ==
    [links |-> <<>>,
     dev |-> [devicesListed |-> TRUE, gpuCount |-> NumGpus, devOpens |-> TRUE,
              dir |-> [i \in 1..NumGpus |-> DirEntry(DevNames[i], TRUE)],
              writable |-> TRUE],
     openable |-> AllLibraries,
     gpuInfo |-> [i \in 1..NumGpus |-> GpuInfoEntry(m_gpuList[i], TRUE)],
     environ |-> {}]

\* The GPU infos drawn from: an entry per position, of a GPU of the list or
\* of another one, persistence mode on or off.
GpuInfos ==
    [1..NumGpus -> {GpuInfoEntry(g, e) : g \in GpuIds \cup {m_gpuList[NumGpus] + 1},
                                        e \in BOOLEAN}]

\* The /dev directories drawn from: up to as many entries as there are GPUs,
\* of different names and in any order, each readable or not, and one with
\* an entry more.
DevDirectories ==
    LET names == {DevNames[i] : i \in 1..Len(DevNames)}
        ents == {DirEntry(n, r) : n \in names, r \in BOOLEAN}
    IN  UNION {{d \in [1..n -> ents] :
                   \A i, j \in 1..n : i # j => d[i].d_name # d[j].d_name}
               : n \in 0..NumGpus}
        \cup {[i \in 1..(NumGpus + 1) |-> DirEntry(DevNames[i], i # 2)]}

\* The environments drawn from: none, one or two of the variables looked
\* for and of one that is not, and all of them.
Environs ==
    LET names == {checkKeys[i] : i \in 1..Len(checkKeys)} \cup {"PATH"}
    IN  {e \in SUBSET names : Cardinality(e) <= 2} \cup {names}

\* The systems a test is run on: every answer to what the test reads.
Systems(doTest) ==
    CASE doTest = "denylist" ->
            {[QuietSystem EXCEPT !.links = l] :
                l \in {<<>>, <<"nvidia">>, <<"nouveau">>, <<"EACCES">>, <<"nvidia", "nouveau">>,
                       <<"nouveau", "nouveau">>}}
      [] doTest = "permissions" ->
            {[QuietSystem EXCEPT !.dev = d] :
                d \in [devicesListed : BOOLEAN, gpuCount : {NumGpus}, devOpens : BOOLEAN,
                       dir : DevDirectories, writable : BOOLEAN]}
      [] doTest \in {"libraries_nvml", "libraries_cuda", "libraries_cudatk"} ->
            {[QuietSystem EXCEPT !.openable = o] : o \in SUBSET AllLibraries}
      [] doTest = "persistence_mode" ->
            {[QuietSystem EXCEPT !.gpuInfo = g] : g \in GpuInfos}
      [] doTest = "env_variables" ->
            {[QuietSystem EXCEPT !.environ = e] : e \in Environs}
      [] OTHER -> {QuietSystem}

\* What Go has done when it returns or reaches the first query of a check
\* that reads telemetry: the plugin, the checks called, the latest return.
Gone(p, calls, ret) == [p |-> p, calls |-> calls, ret |-> ret]

\* A check called by Go that ran to its end.
Called(name, checked) == Gone(checked.p, <<name>>, checked.ret)

\* The checks of a test that reads telemetry which Go has called when it
\* returns or stands at the first query: with no GPU in the list each
\* check's loop ends at once, and Go has called them all and returns.
Started(doTest, p) ==
    IF p.gpuList # <<>> \/ NextCheck(doTest, FirstCheck(doTest)) = "none"
    THEN <<FirstCheck(doTest)>>
    ELSE <<FirstCheck(doTest), NextCheck(doTest, FirstCheck(doTest))>>

\* The tests whose checks read telemetry, with fake GPUs and with real ones.
TelemetryTests(fake) == IF fake THEN {"page_retirement"} ELSE SoftwareTests

\* Mutant: with fake GPUs the result is left as it was.
Go_FakeSetsNothing(fake, testParameters, system, p) ==
    LET doTest == testParameters["SW_STR_DO_TEST"]
    IN  IF fake
        THEN Gone(p, IF doTest = "page_retirement" THEN Started(doTest, p) ELSE <<>>, "none")
        ELSE Gone(p, <<>>, "none")

\* Mutant: the default of the do-test parameter runs the denylist check.
Go_DefaultRunsDenylist(fake, testParameters, system, p) ==
    LET doTest == testParameters["SW_STR_DO_TEST"]
    IN  IF doTest = "None" /\ ~fake
        THEN Called("checkDenylist", checkDenylist(system.links, p))
        ELSE Gone(p, IF doTest \in TelemetryTests(fake) THEN Started(doTest, p) ELSE <<>>,
                  "none")

\* Software::Go after SetFromStruct, up to its return or to the first query
\* of the check it calls. Go is run for the plugin's one test, so testName
\* and SW_PLUGIN_NAME name the same result.
Go(fake, testParameters, system, p) ==
    LET doTest == testParameters["SW_STR_DO_TEST"]
    IN  IF fake
        THEN Gone(SetResult(p, NVVS_RESULT_PASS),
                  IF doTest = "page_retirement" THEN Started(doTest, p) ELSE <<>>,
                  "none")
        ELSE CASE doTest = "denylist" ->
                     Called("checkDenylist", checkDenylist(system.links, p))
               [] doTest = "permissions" ->
                     Called("checkPermissions",
                            checkPermissions(
                                GetBoolFromString(testParameters, "SW_STR_CHECK_FILE_CREATION"),
                                GetBoolFromString(testParameters, "SW_STR_SKIP_DEVICE_TEST"),
                                system.dev, p))
               [] doTest = "libraries_nvml" ->
                     Called("checkLibraries", checkLibraries("CHECK_NVML", system.openable, p))
               [] doTest = "libraries_cuda" ->
                     Called("checkLibraries", checkLibraries("CHECK_CUDA", system.openable, p))
               [] doTest = "libraries_cudatk" ->
                     Called("checkLibraries", checkLibraries("CHECK_CUDATK", system.openable, p))
               [] doTest = "persistence_mode" ->
                     IF ~GetBoolFromString(testParameters, "SW_STR_REQUIRE_PERSISTENCE")
                     THEN Gone(SetResult(p, NVVS_RESULT_SKIP), <<>>, "none")
                     ELSE Called("checkPersistenceMode",
                                 checkPersistenceMode(system.gpuInfo, p))
               [] doTest = "env_variables" ->
                     Called("checkForBadEnvVaribles",
                            checkForBadEnvVaribles(system.environ, p))
               [] doTest \in SoftwareTests -> Gone(p, Started(doTest, p), "none")
               [] OTHER -> Gone(p, <<>>, "none")

\* DCGM_FV_FLAG_LIVE_DATA
DCGM_FV_FLAG_LIVE_DATA == 1

\* The flags a check passes to GetCurrentFieldValue: checkPageRetirement and
\* checkRowRemapping ask for cached data when the GPUs are fake.
QueryFlags(fake, check) ==
    IF fake /\ check \in {"checkPageRetirement", "checkRowRemapping"}
    THEN 0
    ELSE DCGM_FV_FLAG_LIVE_DATA

(***************************************************************************)
(* The state machine: a caller passes one command at a time to             *)
(* ProcessMessage and takes the status it returns, while other threads'    *)
(* calls are handled in between.                                           *)
(***************************************************************************)
VARIABLES
    m_isPaused,       \* the module's pause flag
    loggingSeverity,  \* the module's logging severity
    pc,               \* "idle", "called" (the command passed, ProcessMessage
                      \* about to be entered with it), "loaded" (a run command
                      \* has loaded m_isPaused at line 353 and has not acted
                      \* on the value yet),
                      \* "RunDiagAndAction" (inside the manager's call),
                      \* "returned" (the handler is through with the module and
                      \* on its way back; the caller has not resumed yet)
    sent,             \* the command as the caller passed it
    msg,              \* the caller's message buffer
    loads,            \* the values this call has loaded from m_isPaused (line
                      \* 353), in order: none before the load and on a path
                      \* without it
    retSt,            \* the status ProcessMessage returned
    steps,            \* the calls ProcessMessage made, in order
    upgrades,         \* the requests ProduceLatestDcgmRunDiag returned
    copies,           \* the extents of the buffer copies ProduceLatestDcgmRunDiag made
    drw,              \* the response wrapper of the run handler
    runCalls,         \* the RunDiagAndAction calls made: arguments and return
    stopCalls,        \* the StopRunningDiag calls made: their returns
    handler,          \* the member function the caller entered
    other             \* the other thread's latest call since the caller
                      \* passed the command: the status it returned, or that
                      \* it is inside RunDiagAndAction as well, or that it is
                      \* a run between its load of m_isPaused (line 353) and
                      \* what it does with the value, which loads holds

\* Threads of the host that call ProcessMessage on the one module instance.
VARIABLES
    tpc,              \* per thread: "idle", "called", "loaded" (pause flag read),
                      \* "RunDiagAndAction", "returned"
    tcmd,             \* per thread: the command it passed
    tout,             \* per thread: what its ProcessMessage call did
    tseen,            \* per thread: what held when its call was handled
    tloaded,          \* per thread: the pause flag as its run command loaded it
    stopSignal,       \* the stop signal StopRunningDiag raises
    lastPause         \* the value of the last pause/resume message handled

diagVars ==
    <<m_isPaused, loggingSeverity, pc, sent, msg, loads, retSt, steps, upgrades, copies,
      drw, runCalls, stopCalls, handler, other>>

callVars == <<pc, sent, msg, loads, retSt, steps, upgrades, copies, drw, runCalls,
              stopCalls, handler, other>>

thrVars == <<tpc, tcmd, tout, tseen, tloaded, stopSignal, lastPause>>

\* The Software plugin, run by nvvs in a process of its own.
VARIABLES
    swPc,               \* the test Go runs, the check, the GPU's index, the next query
    swResults,          \* the result of the test per GPU
    swErrors,           \* the errors added, in order
    swInfo,             \* the info notes added, in order
    main_should_stop,   \* the global stop flag
    retiredPagesTotal,  \* checkPageRetirement's local running total, 0 outside it
    swIter,             \* the iteration under way or last ended: what it found and did
    swChecked,          \* the GPUs the check under way has begun, with the flag seen
    swFake,             \* UsingFakeGpus()
    swParams,           \* m_testParameters after SetFromStruct
    swSystem,           \* what the system answers to the checks that read it
    swCalls,            \* the checks Go has called, in order
    swRet,              \* what the check that ran to its end returned
    swWarnings,         \* the warnings added, in order
    swGpuList,          \* m_gpuList of the plugin constructed
    swGoCalls,          \* the calls of Go made on the plugin constructed
    swBefore            \* the plugin as Go found it, when Go is under way or has returned

swVars ==
    <<swPc, swResults, swErrors, swInfo, main_should_stop, retiredPagesTotal, swIter,
      swChecked, swFake, swParams, swSystem, swCalls, swRet, swWarnings, swGpuList,
      swGoCalls, swBefore>>

\* nvvs as the host of one plugin, and the plugin behind the interface of
\* PluginInterface.h.
VARIABLES
    hostPc,         \* where the host stands with the plugin
    loadFailure,    \* the host has reported that the plugin cannot be loaded
    m_userData,     \* the host's copy of the token InitializePlugin wrote
    pluginToken,    \* the token as the plugin wrote it
    pluginCalls,    \* the calls made on the plugin, in order
    pluginResults,  \* plugin side: the GPUs a result was set for
    pluginErrors,   \* plugin side: the number of errors added
    pluginInfo,     \* plugin side: the number of info notes added
    pluginStats,    \* plugin side: the number of custom stats produced
    statsCursor,    \* plugin side: the custom stats handed over so far
    customStats,    \* the dcgmDiagCustomStats_t of the latest RetrieveCustomStats
    diagResults,    \* the dcgmDiagResults_t of the latest RetrieveResults
    hostStats       \* the custom stats the host has gathered, in order

hostVars ==
    <<hostPc, loadFailure, m_userData, pluginToken, pluginCalls, pluginResults, pluginErrors,
      pluginInfo, pluginStats, statsCursor, customStats, diagResults, hostStats>>

vars == <<diagVars, thrVars, swVars, hostVars>>

\* The plugin library has not been opened.
HostInit ==
    /\ hostPc = "unloaded"
    /\ loadFailure = FALSE
    /\ m_userData = NullUserData
    /\ pluginToken = NullUserData
    /\ pluginCalls = <<>>
    /\ pluginResults = {}
    /\ pluginErrors = 0
    /\ pluginInfo = 0
    /\ pluginStats = 0
    /\ statsCursor = 0
    /\ customStats = NoCustomStats
    /\ diagResults = NoDiagResults
    /\ hostStats = <<>>

\* Go has not been entered.
SwIdle == [test |-> "none", check |-> "none", idx |-> 0, query |-> "none"]

\* No iteration has begun.
NoIter ==
    [check |-> "none", idx |-> 0, gpuId |-> 0, stopBefore |-> 0, errorsBefore |-> <<>>,
     infoBefore |-> <<>>, resultsBefore |-> NewPlugin.results, queries |-> <<>>,
     done |-> FALSE]

SwInit ==
    /\ swPc = SwIdle
    /\ swResults = NewPlugin.results
    /\ swErrors = NewPlugin.errors
    /\ swInfo = NewPlugin.info
    /\ main_should_stop = NewPlugin.stop
    /\ retiredPagesTotal = 0
    /\ swIter = NoIter
    /\ swChecked = <<>>
    /\ swFake = FALSE
    /\ swParams = DefaultTestParameters
    /\ swSystem = QuietSystem
    /\ swCalls = <<>>
    /\ swRet = "none"
    /\ swWarnings = NewPlugin.warnings
    /\ swGpuList = NewPlugin.gpuList
    /\ swGoCalls = 0
    /\ swBefore = NewPlugin

Threads == {"t1", "t2"}

\* What a thread that has made no call holds.
NoOutcome ==
    Outcome("none", NullCommand,
            [isPaused |-> FALSE, severity |-> "DcgmLoggingSeverityError"], <<>>)

NothingSeen == [paused |-> FALSE, running |-> {}]

ThrInit ==
    /\ tpc = [t \in Threads |-> "idle"]
    /\ tcmd = [t \in Threads |-> NullCommand]
    /\ tout = [t \in Threads |-> NoOutcome]
    /\ tseen = [t \in Threads |-> NothingSeen]
    /\ tloaded = [t \in Threads |-> FALSE]
    /\ stopSignal = FALSE
    /\ lastPause = FALSE

NoResult ==
    /\ retSt = "none"
    /\ steps = <<>>
    /\ upgrades = <<>>
    /\ copies = <<>>
    /\ drw = NewWrapper
    /\ runCalls = <<>>
    /\ stopCalls = <<>>

Init ==
    /\ m_isPaused = FALSE
    /\ loggingSeverity = "DcgmLoggingSeverityError"
    /\ pc = "idle"
    /\ sent = NullCommand
    /\ msg = NullCommand
    /\ loads = <<>>
    /\ NoResult
    /\ handler = "ProcessMessage"
    /\ other = NoOther
    /\ ThrInit
    /\ SwInit
    /\ HostInit

\* The command is a pause/resume message of the core namespace.
IsPauseResume(c) ==
    /\ c.ptr # 0
    /\ c.header.moduleId = DcgmModuleIdCore
    /\ c.header.subCommand = DCGM_CORE_SR_PAUSE_RESUME

\* The command reaches case DCGM_DIAG_SR_RUN, whose first statement loads the
\* pause flag.
IsRun(c) ==
    /\ c.ptr # 0
    /\ c.header.moduleId # DcgmModuleIdCore
    /\ c.header.subCommand = DCGM_DIAG_SR_RUN

\* The command reaches case DCGM_DIAG_SR_STOP.
IsStop(c) ==
    /\ c.ptr # 0
    /\ c.header.moduleId # DcgmModuleIdCore
    /\ c.header.subCommand = DCGM_DIAG_SR_STOP

\* A caller passes a command to the module.
Dispatch ==
    /\ pc = "idle"
    /\ \E cmd \in Commands :
        /\ sent' = cmd
        /\ msg' = cmd
    /\ pc' = "called"
    /\ UNCHANGED <<m_isPaused, loggingSeverity, loads, retSt, steps, upgrades, copies, drw,
                   runCalls, stopCalls, handler, other>>
    /\ UNCHANGED <<thrVars, swVars, hostVars>>

\* The call stored to the pause flag (line 316).
Stored(o) == \E i \in 1..Len(o.steps) : o.steps[i] = "m_isPaused.store"

\* What the call has done when it returns or, for a run that got as far,
\* when it is inside mpDiagManager->RunDiagAndAction: there the call stays
\* for as long as the diagnostic runs, the status and the response still to
\* come.  The pause flag is written by the store of line 316 only: a run
\* that went on with the value it loaded leaves the flag as it is by now.
Handled(o) ==
    /\ m_isPaused' = IF Stored(o) THEN o.isPaused ELSE m_isPaused
    /\ loggingSeverity' = o.severity
    /\ loads' = o.loads
    /\ steps' = o.steps
    /\ upgrades' = o.upgrades
    /\ copies' = o.copies
    /\ drw' = o.drw
    /\ runCalls' = o.runCalls
    /\ stopCalls' = o.stopCalls
    /\ IF o.runCalls # <<>>
       THEN /\ pc' = "RunDiagAndAction"
            /\ retSt' = "none"
            /\ msg' = [o.msg EXCEPT !.diagResponse = msg.diagResponse]
       ELSE /\ pc' = "returned"
            /\ retSt' = o.ret
            /\ msg' = o.msg

\* DcgmModuleDiag::ProcessMessage(moduleCommand) with a run command, from
\* entry to the load of the pause flag at line 353.  The module holds no
\* lock: other threads' calls are handled between this load and what the
\* call does with the value.
Load ==
    /\ pc = "called"
    /\ handler = "ProcessMessage"
    /\ IsRun(msg)
    /\ pc' = "loaded"
    /\ loads' = <<m_isPaused>>
    /\ steps' = <<"m_isPaused.load">>
    /\ UNCHANGED <<m_isPaused, loggingSeverity, sent, msg, retSt, upgrades, copies, drw,
                   runCalls, stopCalls, handler, other>>
    /\ UNCHANGED <<thrVars, swVars, hostVars>>

\* DcgmModuleDiag::ProcessMessage(moduleCommand): a run command from its load
\* of the pause flag on, with the value it loaded, to its return or to its
\* RunDiagAndAction call; any other command from entry to its one access to
\* the module (the store at line 316, the StopRunningDiag call at line 301,
\* the change of the logging severity) or, when it makes none, to its return.
\* What a call does before and after these accesses touches the message and
\* locals only.
Handle ==
    /\ handler = "ProcessMessage"
    /\ \/ pc = "called" /\ ~IsRun(msg)
       \/ pc = "loaded"
    /\ \E env \in EnvsFor(msg) :
        Handled(ProcessMessage(msg,
                               [isPaused |-> IF pc = "loaded" THEN loads[1] ELSE m_isPaused,
                                severity |-> loggingSeverity],
                               env))
    /\ UNCHANGED <<sent, handler, other>>
    /\ UNCHANGED <<thrVars, swVars, hostVars>>

\* The points of a call at which the other thread's steps fall: from the
\* moment the caller has passed the command until it has the status back.
UnderWay == pc \in {"called", "loaded", "RunDiagAndAction", "returned"}

\* ProcessMessage is entered on the other thread with a run command and gets
\* as far as its load of the pause flag (line 353).
MeanwhileLoad ==
    /\ UnderWay
    /\ other.ret # "m_isPaused.load"
    /\ other' = [ret |-> "m_isPaused.load", loads |-> <<m_isPaused>>]
    /\ UNCHANGED <<m_isPaused, loggingSeverity, pc, sent, msg, loads, retSt, steps, upgrades,
                   copies, drw, runCalls, stopCalls, handler>>
    /\ UNCHANGED <<thrVars, swVars, hostVars>>

\* The module holds no lock: while this call is under way (before
\* ProcessMessage is entered with it, between its load and what follows,
\* while it is inside RunDiagAndAction, and after the handler's store or
\* manager call, before it has returned), the other thread's call goes on: a
\* run that has loaded the pause flag acts on the value it loaded, up to its
\* return or to a RunDiagAndAction call of its own; any other command is
\* handled from entry to its return.
Meanwhile ==
    /\ UnderWay
    /\ \E cmd \in OtherCommands : \E env \in EnvsFor(cmd) :
        /\ IsRun(cmd) <=> other.ret = "m_isPaused.load"
        /\ LET o == ProcessMessage(cmd,
                                   [isPaused |-> IF IsRun(cmd) THEN other.loads[1]
                                                 ELSE m_isPaused,
                                    severity |-> loggingSeverity],
                                   env)
           IN  /\ m_isPaused' = IF Stored(o) THEN o.isPaused ELSE m_isPaused
               /\ loggingSeverity' = o.severity
               /\ other' = [ret |-> IF o.runCalls # <<>> THEN "RunDiagAndAction" ELSE o.ret,
                            loads |-> o.loads]
    /\ UNCHANGED <<pc, sent, msg, loads, retSt, steps, upgrades, copies, drw, runCalls,
                   stopCalls, handler>>
    /\ UNCHANGED <<thrVars, swVars, hostVars>>

\* RunDiagAndAction returns, the response written through the wrapper, and
\* the handler is on its way back with the status.
RunReturns ==
    /\ pc = "RunDiagAndAction"
    /\ pc' = "returned"
    /\ retSt' = runCalls[Len(runCalls)].ret
    /\ msg' = IF drw.response = msg.ptr THEN [msg EXCEPT !.diagResponse = drw.version]
              ELSE msg
    /\ UNCHANGED <<m_isPaused, loggingSeverity, sent, loads, steps, upgrades, copies,
                   drw, runCalls, stopCalls, handler, other>>
    /\ UNCHANGED <<thrVars, swVars, hostVars>>

\* The caller takes the status and releases the message.  A run of the other
\* thread that has loaded the pause flag is still to act on it.
Return ==
    /\ pc = "returned"
    /\ pc' = "idle"
    /\ sent' = NullCommand
    /\ msg' = NullCommand
    /\ retSt' = "none"
    /\ steps' = <<>>
    /\ upgrades' = <<>>
    /\ copies' = <<>>
    /\ drw' = NewWrapper
    /\ runCalls' = <<>>
    /\ stopCalls' = <<>>
    /\ loads' = <<>>
    /\ UNCHANGED <<m_isPaused, loggingSeverity>>
    /\ handler' = "ProcessMessage"
    /\ other' = IF other.ret = "m_isPaused.load" THEN other ELSE NoOther
    /\ UNCHANGED <<thrVars, swVars, hostVars>>

Next == Dispatch \/ Load \/ Handle \/ MeanwhileLoad \/ Meanwhile \/ RunReturns \/ Return

Spec == Init /\ [][Next]_vars

(***************************************************************************)
(* The run handlers taken on their own: ProcessRun_v<K> entered with a     *)
(* message of its own type whose header declares any version, as its       *)
(* CheckVersion call provides for.                                         *)
(***************************************************************************)
RunHandlers ==
    {"ProcessRun_v5", "ProcessRun_v6", "ProcessRun_v7", "ProcessRun_v8", "ProcessRun_v9"}

\* The message version ProcessRun_v<K> is written for.
HandlerVersion(h) ==
    CASE h = "ProcessRun_v5" -> dcgm_diag_msg_run_version5
      [] h = "ProcessRun_v6" -> dcgm_diag_msg_run_version6
      [] h = "ProcessRun_v7" -> dcgm_diag_msg_run_version7
      [] h = "ProcessRun_v8" -> dcgm_diag_msg_run_version8
      [] h = "ProcessRun_v9" -> dcgm_diag_msg_run_version9

ProcessRun(h, m, st, env) ==
    CASE h = "ProcessRun_v5" -> ProcessRun_v5(m, st, env)
      [] h = "ProcessRun_v6" -> ProcessRun_v6(m, st, env)
      [] h = "ProcessRun_v7" -> ProcessRun_v7(m, st, env)
      [] h = "ProcessRun_v8" -> ProcessRun_v8(m, st, env)
      [] h = "ProcessRun_v9" -> ProcessRun_v9(m, st, env)

\* The messages ProcessRun_v<K> is entered with: its own struct, the header
\* declaring its version, the next one, or none.
HandlerCommands(h) ==
    {Command(1, DcgmModuleIdDiag, DCGM_DIAG_SR_RUN, v, 22, r, 3, FALSE) :
        v \in {HandlerVersion(h), HandlerVersion(h) + 1, 0},
        r \in RunDiags(RunDiagGen(HandlerVersion(h)))}

\* A caller enters a run handler.
CallRun ==
    /\ pc = "idle"
    /\ \E h \in RunHandlers : \E cmd \in HandlerCommands(h) :
        /\ handler' = h
        /\ sent' = cmd
        /\ msg' = cmd
    /\ pc' = "called"
    /\ UNCHANGED <<m_isPaused, loggingSeverity, loads, retSt, steps, upgrades, copies, drw,
                   runCalls, stopCalls, other>>
    /\ UNCHANGED <<thrVars, swVars, hostVars>>

\* DcgmModuleDiag::ProcessRun_v<K>(msg), from entry to its return or to its
\* RunDiagAndAction call: the handler reads and writes its message and its
\* locals, and nothing of the module before the manager.
HandleRun ==
    /\ pc = "called"
    /\ handler \in RunHandlers
    /\ \E env \in EnvsFor(msg) :
        Handled(ProcessRun(handler, msg,
                           [isPaused |-> m_isPaused, severity |-> loggingSeverity], env))
    /\ UNCHANGED <<sent, handler, other>>
    /\ UNCHANGED <<thrVars, swVars, hostVars>>

NextHandlers == CallRun \/ HandleRun \/ MeanwhileLoad \/ Meanwhile \/ RunReturns \/ Return

SpecHandlers == Init /\ [][NextHandlers]_vars

(***************************************************************************)
(* Two threads of the host calling ProcessMessage on the one module        *)
(* instance.  A call is handled in one step up to the point where it       *)
(* returns or enters RunDiagAndAction: between the load of m_isPaused and  *)
(* that point the handler touches its own message and locals only.  The    *)
(* run then lasts until RunDiagAndAction returns.                          *)
(***************************************************************************)
\* The commands the threads pass: runs of the latest and the oldest version
\* and of an unknown one, stop, pause and resume.
ThreadCommands ==
    {Command(1, DcgmModuleIdDiag, DCGM_DIAG_SR_RUN, dcgm_diag_msg_run_version9, 21,
             ZeroRunDiag(8), 3, FALSE),
     Command(1, DcgmModuleIdDiag, DCGM_DIAG_SR_RUN, dcgm_diag_msg_run_version5, 22,
             ScenarioRunDiag, 3, FALSE),
     Command(1, DcgmModuleIdDiag, DCGM_DIAG_SR_RUN, 10, 22, ZeroRunDiag(7), 3, FALSE),
     Command(1, DcgmModuleIdDiag, DCGM_DIAG_SR_STOP, 0, 21, ZeroRunDiag(7), 0, FALSE),
     Command(1, DcgmModuleIdCore, DCGM_CORE_SR_PAUSE_RESUME, 0, 21, ZeroRunDiag(7), 0, TRUE),
     Command(1, DcgmModuleIdCore, DCGM_CORE_SR_PAUSE_RESUME, 0, 21, ZeroRunDiag(7), 0, FALSE)}

\* DcgmDiagManager::StopRunningDiag raises the stop signal of the run.
StopRunningDiag(signal, o) == signal \/ o.stopCalls # <<>>

\* The threads inside RunDiagAndAction.
Running == {t \in Threads : tpc[t] = "RunDiagAndAction"}

\* A thread passes a command to ProcessMessage.
ThreadDispatch(t) ==
    /\ tpc[t] = "idle"
    /\ \E cmd \in ThreadCommands : tcmd' = [tcmd EXCEPT ![t] = cmd]
    /\ tpc' = [tpc EXCEPT ![t] = "called"]
    /\ UNCHANGED <<m_isPaused, loggingSeverity, callVars, tout, tseen, tloaded, stopSignal,
                   lastPause>>
    /\ UNCHANGED <<swVars, hostVars>>

\* A run command on thread t reaches the gate: m_isPaused.load().  Another
\* thread may run between the load and what the handler does with it.
ThreadLoad(t) ==
    /\ tpc[t] = "called"
    /\ IsRun(tcmd[t])
    /\ tpc' = [tpc EXCEPT ![t] = "loaded"]
    /\ tloaded' = [tloaded EXCEPT ![t] = m_isPaused]
    /\ tseen' = [tseen EXCEPT ![t] = [paused |-> lastPause, running |-> Running]]
    /\ UNCHANGED <<m_isPaused, loggingSeverity, callVars, tcmd, tout, stopSignal, lastPause,
                   swVars, hostVars>>

\* ProcessMessage on thread t, up to its return or its RunDiagAndAction call;
\* a run command goes on with the pause flag as it loaded it.
ThreadProcess(t) ==
    /\ \/ tpc[t] = "called" /\ ~IsRun(tcmd[t])
       \/ tpc[t] = "loaded"
    /\ \E env \in Envs :
        LET loaded == IF tpc[t] = "loaded" THEN tloaded[t] ELSE m_isPaused
            o == ProcessMessage(tcmd[t],
                                [isPaused |-> loaded, severity |-> loggingSeverity], env)
        IN  /\ m_isPaused' = IF Stored(o) THEN o.isPaused ELSE m_isPaused
            /\ loggingSeverity' = o.severity
            /\ stopSignal' = StopRunningDiag(stopSignal, o)
            /\ tout' = [tout EXCEPT ![t] = o]
            /\ tpc' = [tpc EXCEPT ![t] = IF o.runCalls # <<>> THEN "RunDiagAndAction"
                                          ELSE "returned"]
    /\ lastPause' = IF IsPauseResume(tcmd[t]) THEN tcmd[t].pause ELSE lastPause
    /\ tseen' = IF tpc[t] = "loaded" THEN tseen
              ELSE [tseen EXCEPT ![t] = [paused |-> lastPause, running |-> Running]]
    /\ UNCHANGED <<callVars, tcmd, tloaded, swVars, hostVars>>

\* RunDiagAndAction returns on thread t, and the handler with it.
ThreadRunReturn(t) ==
    /\ tpc[t] = "RunDiagAndAction"
    /\ tpc' = [tpc EXCEPT ![t] = "returned"]
    /\ UNCHANGED <<m_isPaused, loggingSeverity, callVars, tcmd, tout, tseen, tloaded,
                   stopSignal, lastPause, swVars, hostVars>>

\* The caller on thread t takes the status and releases the message.
ThreadRelease(t) ==
    /\ tpc[t] = "returned"
    /\ tpc' = [tpc EXCEPT ![t] = "idle"]
    /\ tcmd' = [tcmd EXCEPT ![t] = NullCommand]
    /\ tout' = [tout EXCEPT ![t] = NoOutcome]
    /\ tseen' = [tseen EXCEPT ![t] = NothingSeen]
    /\ tloaded' = [tloaded EXCEPT ![t] = FALSE]
    /\ UNCHANGED <<m_isPaused, loggingSeverity, callVars, stopSignal, lastPause, swVars,
                   hostVars>>

TDispatch == \E t \in Threads : ThreadDispatch(t)

TLoad == \E t \in Threads : ThreadLoad(t)

TProcess == \E t \in Threads : ThreadProcess(t)

TRunReturn == \E t \in Threads : ThreadRunReturn(t)

TRelease == \E t \in Threads : ThreadRelease(t)

NextThreads == TDispatch \/ TLoad \/ TProcess \/ TRunReturn \/ TRelease

SpecThreads == Init /\ [][NextThreads]_vars

(***************************************************************************)
(* The Software plugin's run: Go starts the checks of one test, each check *)
(* walks m_gpuList and asks the recorder for the current field values.     *)
(***************************************************************************)
\* The plugin as the variables hold it.
SwPlugin ==
    [gpuList |-> swGpuList, results |-> swResults, errors |-> swErrors, info |-> swInfo,
     warnings |-> swWarnings, stop |-> main_should_stop]

\* Software::Software: a plugin is constructed, in the process the last one
\* ran in or in a new one, whose stop flag is 0.
SwConstructOver(processes) ==
    /\ swPc.test = "none"
    /\ \E gpuInfoGiven \in BOOLEAN, process \in processes :
        LET new == Software(gpuInfoGiven, IF process = "new" THEN 0 ELSE main_should_stop)
        IN  /\ swGpuList' = new.gpuList
            /\ swResults' = new.results
            /\ swErrors' = new.errors
            /\ swInfo' = new.info
            /\ swWarnings' = new.warnings
            /\ main_should_stop' = new.stop
    /\ swGoCalls' = 0
    /\ UNCHANGED <<swPc, retiredPagesTotal, swIter, swChecked, swFake, swParams, swSystem,
                   swCalls, swRet, swBefore>>
    /\ UNCHANGED <<diagVars, thrVars, hostVars>>

\* nvvs starts a process for the plugin and constructs it.
SwConstruct == SwConstructOver({"new"})

\* A plugin is constructed in a new process or in the one of the last.
SwConstructAny == SwConstructOver({"new", "same"})

\* Software::Go(testName, tpStruct), called on a plugin on which fewer than
\* calls calls have been made: the parameters supplied are laid over the
\* defaults, and the do-test parameter selects the check. A check that
\* reads no telemetry runs to its end within the step; one that does stands
\* at its first query, or has ended when the plugin has no GPU in its list.
SwGoOver(fakes, parameterSets, calls) ==
    /\ swPc.test = "none"
    /\ swGoCalls < calls
    /\ \E fake \in fakes, tpStruct \in parameterSets :
        LET testParameters == SetFromStruct(DefaultTestParameters, tpStruct)
            doTest == testParameters["SW_STR_DO_TEST"]
        IN  \E system \in Systems(IF fake THEN "None" ELSE doTest) :
            LET gone == Go(fake, testParameters, system, SwPlugin)
            IN  /\ swPc' =
                       IF doTest \in TelemetryTests(fake) /\ swGpuList # <<>>
                       THEN [test |-> doTest, check |-> FirstCheck(doTest), idx |-> 1,
                             query |-> FirstQuery(FirstCheck(doTest))]
                       ELSE [test |-> doTest, check |-> "none", idx |-> 0, query |-> "none"]
                /\ swResults' = gone.p.results
                /\ swErrors' = gone.p.errors
                /\ swInfo' = gone.p.info
                /\ swWarnings' = gone.p.warnings
                /\ main_should_stop' = gone.p.stop
                /\ swFake' = fake
                /\ swParams' = testParameters
                /\ swSystem' = system
                /\ swCalls' = gone.calls
                /\ swRet' = gone.ret
    /\ swGoCalls' = swGoCalls + 1
    /\ swBefore' = SwPlugin
    /\ UNCHANGED <<retiredPagesTotal, swIter, swChecked, swGpuList>>
    /\ UNCHANGED <<diagVars, thrVars, hostVars>>

\* Go with real GPUs for a test whose checks read telemetry, once on the
\* plugin constructed.
SwGo ==
    SwGoOver({FALSE}, {Supplied(test, Absent, Absent, Absent) : test \in SoftwareTests}, 1)

\* Go with fake or real GPUs, for every parameter set supplied, once on the
\* plugin constructed.
SwGoAny == SwGoOver(BOOLEAN, SuppliedParameters, 1)

\* Go called again on the plugin it has been called on.
SwGoAgain ==
    SwGoOver({FALSE},
             {Supplied(test, Absent, Absent, Absent) :
                 test \in {"page_retirement", "env_variables"}},
             2)

\* checkLibraries called for a set of libraries, known or not, on a plugin
\* on which Go has not been called.
SwCheckLibraries ==
    /\ swPc.test = "none"
    /\ swGoCalls = 0
    /\ \E checkLib \in LibraryChecks, openable \in SUBSET AllLibraries :
        LET checked == checkLibraries(checkLib, openable, SwPlugin)
        IN  /\ swPc' = [test |-> checkLib, check |-> "none", idx |-> 0, query |-> "none"]
            /\ swResults' = checked.p.results
            /\ swErrors' = checked.p.errors
            /\ swInfo' = checked.p.info
            /\ swWarnings' = checked.p.warnings
            /\ main_should_stop' = checked.p.stop
            /\ swSystem' = [QuietSystem EXCEPT !.openable = openable]
            /\ swCalls' = <<"checkLibraries">>
            /\ swRet' = checked.ret
    /\ swGoCalls' = swGoCalls + 1
    /\ swBefore' = SwPlugin
    /\ UNCHANGED <<retiredPagesTotal, swIter, swChecked, swFake, swParams, swGpuList>>
    /\ UNCHANGED <<diagVars, thrVars, hostVars>>

\* Mutant: the loop polls the stop flag between iterations and exits early.
SwAdvance_PollsStop(pos, next) ==
    IF next # "nextGpu" THEN [pos EXCEPT !.query = next]
    ELSE IF pos.idx < Len(swGpuList) /\ main_should_stop' = 0
    THEN [pos EXCEPT !.idx = @ + 1, !.query = FirstQuery(pos.check)]
    ELSE IF NextCheck(pos.test, pos.check) # "none"
    THEN [test |-> pos.test, check |-> NextCheck(pos.test, pos.check), idx |-> 1,
          query |-> FirstQuery(NextCheck(pos.test, pos.check))]
    ELSE [test |-> pos.test, check |-> "none", idx |-> 0, query |-> "none"]

\* Where the check stands after a step that led to next: at the GPU's next
\* query, at the next GPU of the list, in the next check, or back in Go.
SwAdvance(pos, next) ==
    IF next # "nextGpu" THEN [pos EXCEPT !.query = next]
    ELSE IF pos.idx < Len(swGpuList)
    THEN [pos EXCEPT !.idx = @ + 1, !.query = FirstQuery(pos.check)]
    ELSE IF NextCheck(pos.test, pos.check) # "none"
    THEN [test |-> pos.test, check |-> NextCheck(pos.test, pos.check), idx |-> 1,
          query |-> FirstQuery(NextCheck(pos.test, pos.check))]
    ELSE [test |-> pos.test, check |-> "none", idx |-> 0, query |-> "none"]

\* The recorder answers the query the check is at, and the loop body runs
\* on to its next query or to the end of the iteration.
SwQueryOver(answers) ==
    /\ swPc.query # "none"
    /\ \E ans \in answers :
        LET gpuId == swGpuList[swPc.idx]
            first == swPc.query = FirstQuery(swPc.check)
            r     == CheckStep(swPc.check, swPc.query, gpuId, ans, SwPlugin, retiredPagesTotal)
            asked == [field |-> swPc.query, flags |-> QueryFlags(swFake, swPc.check),
                      ans |-> ans]
        IN  /\ swResults' = r.p.results
            /\ swErrors' = r.p.errors
            /\ swInfo' = r.p.info
            /\ main_should_stop' = r.p.stop
            /\ retiredPagesTotal' =
                   IF SwAdvance(swPc, r.next).check = swPc.check THEN r.total ELSE 0
            /\ swIter' =
                   IF first
                   THEN [check |-> swPc.check, idx |-> swPc.idx, gpuId |-> gpuId,
                         stopBefore |-> main_should_stop, errorsBefore |-> swErrors,
                         infoBefore |-> swInfo, resultsBefore |-> swResults,
                         queries |-> <<asked>>,
                         done |-> r.next = "nextGpu"]
                   ELSE [swIter EXCEPT !.queries = Append(@, asked),
                                       !.done = r.next = "nextGpu"]
            /\ swChecked' =
                   IF ~first THEN swChecked
                   ELSE Append(IF swPc.idx = 1 THEN <<>> ELSE swChecked,
                               [gpuId |-> gpuId, stop |-> main_should_stop])
            /\ swPc' = SwAdvance(swPc, r.next)
            /\ swWarnings' = r.p.warnings
            /\ swCalls' =
                   IF SwAdvance(swPc, r.next).check \in {swPc.check, "none"} THEN swCalls
                   ELSE Append(swCalls, SwAdvance(swPc, r.next).check)
    /\ UNCHANGED <<swFake, swParams, swSystem, swRet, swGpuList, swGoCalls, swBefore>>
    /\ UNCHANGED <<diagVars, thrVars, hostVars>>

\* The recorder answers with any of the answers.
SwQuery == SwQueryOver(Answers)

\* The recorder answers every query with the value 1.
SwQueryOne == SwQueryOver({Answer(DCGM_ST_OK, DCGM_ST_OK, 1)})

\* The recorder answers that the query failed, or with the value 0 or 1.
SwQueryFew ==
    SwQueryOver({Answer(DCGM_ST_NO_DATA, DCGM_ST_OK, 0), Answer(DCGM_ST_OK, DCGM_ST_OK, 0),
                 Answer(DCGM_ST_OK, DCGM_ST_OK, 1)})

\* Go has returned: the plugin keeps its results, errors, notes and
\* warnings, and the stop flag stays as it is.
SwReturn ==
    /\ swPc.test # "none"
    /\ swPc.query = "none"
    /\ swPc' = SwIdle
    /\ retiredPagesTotal' = 0
    /\ swIter' = NoIter
    /\ swChecked' = <<>>
    /\ swFake' = FALSE
    /\ swParams' = DefaultTestParameters
    /\ swSystem' = QuietSystem
    /\ swCalls' = <<>>
    /\ swRet' = "none"
    /\ swBefore' = NewPlugin
    /\ UNCHANGED <<swResults, swErrors, swInfo, swWarnings, main_should_stop, swGpuList,
                   swGoCalls>>
    /\ UNCHANGED <<diagVars, thrVars, hostVars>>

NextSoftware == SwConstruct \/ SwGo \/ SwQuery \/ SwReturn

SpecSoftware == Init /\ [][NextSoftware]_vars

\* Go called twice on one plugin, which is constructed in a new process or
\* in the one the last plugin ran in.
NextSoftwareAgain == SwConstructAny \/ SwGoAgain \/ SwQueryOne \/ SwReturn

SpecSoftwareAgain == Init /\ [][NextSoftwareAgain]_vars

\* Go for every test and parameter set, with fake and with real GPUs.
NextSoftwareGo == SwConstruct \/ SwGoAny \/ SwCheckLibraries \/ SwQueryFew \/ SwReturn

SpecSoftwareGo == Init /\ [][NextSoftwareGo]_vars

(***************************************************************************)
(* The host and a plugin.                                                  *)
(***************************************************************************)
\* Mutant: a plugin built against a newer interface is taken as well.
LoadPlugin_AcceptsNewer ==
    /\ hostPc = "unloaded"
    /\ \E v \in PluginVersions :
          /\ pluginCalls' = Append(pluginCalls,
                                   PluginCall("GetPluginInterfaceVersion", NullUserData, v))
          /\ hostPc' = IF v >= DCGM_DIAG_PLUGIN_INTERFACE_VERSION THEN "versionChecked"
                       ELSE "loadFailed"
          /\ loadFailure' = (v < DCGM_DIAG_PLUGIN_INTERFACE_VERSION)
    /\ UNCHANGED <<m_userData, pluginToken, pluginResults, pluginErrors, pluginInfo,
                   pluginStats, statsCursor, customStats, diagResults, hostStats>>
    /\ UNCHANGED <<diagVars, thrVars, swVars>>

\* The host opens the library, calls GetPluginInterfaceVersion and compares
\* the answer with its own version.
LoadPlugin ==
    /\ hostPc = "unloaded"
    /\ \E v \in PluginVersions :
          /\ pluginCalls' = Append(pluginCalls,
                                   PluginCall("GetPluginInterfaceVersion", NullUserData, v))
          /\ hostPc' = IF v = DCGM_DIAG_PLUGIN_INTERFACE_VERSION THEN "versionChecked"
                       ELSE "loadFailed"
          /\ loadFailure' = (v # DCGM_DIAG_PLUGIN_INTERFACE_VERSION)
    /\ UNCHANGED <<m_userData, pluginToken, pluginResults, pluginErrors, pluginInfo,
                   pluginStats, statsCursor, customStats, diagResults, hostStats>>
    /\ UNCHANGED <<diagVars, thrVars, swVars>>

\* GetPluginInfo, passed the host's version: 0 if the plugin can be run.
HostGetPluginInfo ==
    /\ hostPc = "versionChecked"
    /\ \E ret \in {DCGM_ST_OK, DCGM_ST_PLUGIN_EXCEPTION} :
          /\ pluginCalls' = Append(pluginCalls, PluginCall("GetPluginInfo", NullUserData, ret))
          /\ hostPc' = IF ret = DCGM_ST_OK THEN "loaded" ELSE "loadFailed"
          /\ loadFailure' = (ret # DCGM_ST_OK)
    /\ UNCHANGED <<m_userData, pluginToken, pluginResults, pluginErrors, pluginInfo,
                   pluginStats, statsCursor, customStats, diagResults, hostStats>>
    /\ UNCHANGED <<diagVars, thrVars, swVars>>

\* InitializePlugin, called once: the plugin writes *userData and returns, or
\* the timeout runs out, which counts as a failure to initialize.  A plugin
\* that cannot be run holds the details as an error.
HostInitializePlugin ==
    /\ hostPc = "loaded"
    /\ \E ret \in InitializeOutcomes, token \in UserDataTokens :
          /\ pluginCalls' = Append(pluginCalls, PluginCall("InitializePlugin", NullUserData, ret))
          /\ pluginToken' = token
          /\ m_userData' = token
          /\ pluginErrors' = IF ret = DCGM_ST_OK THEN 0 ELSE 1
          /\ hostPc' = IF ret = DCGM_ST_OK THEN "initialized" ELSE "initFailed"
    /\ UNCHANGED <<loadFailure, pluginResults, pluginInfo, pluginStats, statsCursor,
                   customStats, diagResults, hostStats>>
    /\ UNCHANGED <<diagVars, thrVars, swVars>>

\* Mutant: the host passes the test its own null pointer.
HostRunTest_NoUserData ==
    /\ hostPc = "initialized"
    /\ pluginCalls' = Append(pluginCalls, PluginCall("RunTest", NullUserData, "void"))
    /\ hostPc' = "running"
    /\ UNCHANGED <<loadFailure, m_userData, pluginToken, pluginResults, pluginErrors,
                   pluginInfo, pluginStats, statsCursor, customStats, diagResults, hostStats>>
    /\ UNCHANGED <<diagVars, thrVars, swVars>>

\* RunTest is entered with the userData of InitializePlugin.
HostRunTest ==
    /\ hostPc = "initialized"
    /\ pluginCalls' = Append(pluginCalls, PluginCall("RunTest", m_userData, "void"))
    /\ hostPc' = "running"
    /\ UNCHANGED <<loadFailure, m_userData, pluginToken, pluginResults, pluginErrors,
                   pluginInfo, pluginStats, statsCursor, customStats, diagResults, hostStats>>
    /\ UNCHANGED <<diagVars, thrVars, swVars>>

\* The running test sets the result of a GPU.
PluginSetResult ==
    /\ hostPc = "running"
    /\ \E gpuId \in DeviceIds : pluginResults' = pluginResults \cup {gpuId}
    /\ pluginResults' # pluginResults
    /\ UNCHANGED <<hostPc, loadFailure, m_userData, pluginToken, pluginCalls, pluginErrors,
                   pluginInfo, pluginStats, statsCursor, customStats, diagResults, hostStats>>
    /\ UNCHANGED <<diagVars, thrVars, swVars>>

\* The running test adds an error.
PluginAddError ==
    /\ hostPc = "running"
    /\ pluginErrors <= DCGM_DIAG_MAX_ERRORS
    /\ pluginErrors' = pluginErrors + 1
    /\ UNCHANGED <<hostPc, loadFailure, m_userData, pluginToken, pluginCalls, pluginResults,
                   pluginInfo, pluginStats, statsCursor, customStats, diagResults, hostStats>>
    /\ UNCHANGED <<diagVars, thrVars, swVars>>

\* The running test adds an info note.
PluginAddInfo ==
    /\ hostPc = "running"
    /\ pluginInfo <= DCGM_DIAG_MAX_INFO
    /\ pluginInfo' = pluginInfo + 1
    /\ UNCHANGED <<hostPc, loadFailure, m_userData, pluginToken, pluginCalls, pluginResults,
                   pluginErrors, pluginStats, statsCursor, customStats, diagResults, hostStats>>
    /\ UNCHANGED <<diagVars, thrVars, swVars>>

\* The running test produces a custom stat.
PluginAddCustomStat ==
    /\ hostPc = "running"
    /\ pluginStats < MaxStatsProduced
    /\ pluginStats' = pluginStats + 1
    /\ UNCHANGED <<hostPc, loadFailure, m_userData, pluginToken, pluginCalls, pluginResults,
                   pluginErrors, pluginInfo, statsCursor, customStats, diagResults, hostStats>>
    /\ UNCHANGED <<diagVars, thrVars, swVars>>

\* RunTest returns.
RunTestReturns ==
    /\ hostPc = "running"
    /\ hostPc' = "ran"
    /\ UNCHANGED <<loadFailure, m_userData, pluginToken, pluginCalls, pluginResults,
                   pluginErrors, pluginInfo, pluginStats, statsCursor, customStats, diagResults,
                   hostStats>>
    /\ UNCHANGED <<diagVars, thrVars, swVars>>

\* RetrieveCustomStats: the host takes what the plugin wrote and asks again
\* while moreStats is 1.
HostRetrieveCustomStats ==
    /\ hostPc = "ran"
    /\ LET filled == FillCustomStats(pluginStats, statsCursor)
       IN  /\ customStats' = filled
           /\ statsCursor' = statsCursor + filled.numStats
           /\ hostStats' = hostStats \o filled.stats
           /\ hostPc' = IF filled.moreStats = 1 THEN "ran" ELSE "statsRetrieved"
    /\ pluginCalls' = Append(pluginCalls, PluginCall("RetrieveCustomStats", m_userData, "void"))
    /\ UNCHANGED <<loadFailure, m_userData, pluginToken, pluginResults, pluginErrors,
                   pluginInfo, pluginStats, diagResults>>
    /\ UNCHANGED <<diagVars, thrVars, swVars>>

\* RetrieveResults, after the test and its stats.
HostRetrieveResults ==
    /\ hostPc = "statsRetrieved"
    /\ diagResults' = FillResults(pluginResults, pluginErrors, pluginInfo)
    /\ pluginCalls' = Append(pluginCalls, PluginCall("RetrieveResults", m_userData, "void"))
    /\ hostPc' = "resultsRetrieved"
    /\ UNCHANGED <<loadFailure, m_userData, pluginToken, pluginResults, pluginErrors,
                   pluginInfo, pluginStats, statsCursor, customStats, hostStats>>
    /\ UNCHANGED <<diagVars, thrVars, swVars>>

\* ShutdownPlugin, as the host's plugin object is destructed.
HostShutdownPlugin ==
    /\ hostPc = "resultsRetrieved"
    /\ pluginCalls' = Append(pluginCalls, PluginCall("ShutdownPlugin", m_userData, DCGM_ST_OK))
    /\ hostPc' = "shutdown"
    /\ UNCHANGED <<loadFailure, m_userData, pluginToken, pluginResults, pluginErrors,
                   pluginInfo, pluginStats, statsCursor, customStats, diagResults, hostStats>>
    /\ UNCHANGED <<diagVars, thrVars, swVars>>

\* The library is closed, after the sequence has ended or when the plugin
\* could not be loaded or initialized, with no further call on it; the host
\* may open another plugin.
HostUnload ==
    /\ hostPc \in {"shutdown", "loadFailed", "initFailed"}
    /\ hostPc' = "unloaded"
    /\ loadFailure' = FALSE
    /\ m_userData' = NullUserData
    /\ pluginToken' = NullUserData
    /\ pluginCalls' = <<>>
    /\ pluginResults' = {}
    /\ pluginErrors' = 0
    /\ pluginInfo' = 0
    /\ pluginStats' = 0
    /\ statsCursor' = 0
    /\ customStats' = NoCustomStats
    /\ diagResults' = NoDiagResults
    /\ hostStats' = <<>>
    /\ UNCHANGED <<diagVars, thrVars, swVars>>

NextPluginHost ==
    \/ LoadPlugin
    \/ HostGetPluginInfo
    \/ HostInitializePlugin
    \/ HostRunTest
    \/ PluginSetResult
    \/ PluginAddError
    \/ PluginAddInfo
    \/ PluginAddCustomStat
    \/ RunTestReturns
    \/ HostRetrieveCustomStats
    \/ HostRetrieveResults
    \/ HostShutdownPlugin
    \/ HostUnload

SpecPluginHost == Init /\ [][NextPluginHost]_vars

(***************************************************************************)
(* Properties of the dispatcher.                                           *)
(***************************************************************************)
\* ProcessMessage has returned for a command that is a message.
Returned == pc = "returned" /\ sent.ptr # 0

\* ... a command not addressed to the core namespace.
ReturnedDiag == Returned /\ sent.header.moduleId # DcgmModuleIdCore

\* ... a run command.
ReturnedRun == ReturnedDiag /\ sent.header.subCommand = DCGM_DIAG_SR_RUN

\* No call into the diagnostic manager was made.
NoManagerCall == runCalls = <<>> /\ stopCalls = <<>>

\* The handler did nothing of a run: no upgrade, no sanitization, no bind, no run.
NoRunWork ==
    /\ upgrades = <<>>
    /\ drw = NewWrapper
    /\ runCalls = <<>>
    /\ \A i \in 1..Len(steps) :
          steps[i] \notin {"ProduceLatestDcgmRunDiag", "Sanitize", "SetVersion",
                           "RunDiagAndAction"}

\* The run command loaded the pause flag and found it set.
LoadedPaused == loads = <<TRUE>>

\* The run command loaded the pause flag and found it clear.
LoadedNotPaused == loads = <<FALSE>>

\* C1: a run command (any declared version, any non-core module id) whose
\* load of the pause flag finds it set returns DCGM_ST_PAUSED; RunDiagAndAction
\* is not called, no response wrapper is bound, the load is the only access
\* the call makes to the module (it stores nothing to the pause flag), and the
\* message is as it was sent.
C1_PausedRunRefused ==
    (ReturnedRun /\ LoadedPaused) =>
        /\ retSt = DCGM_ST_PAUSED
        /\ NoManagerCall
        /\ NoRunWork
        /\ steps = <<"m_isPaused.load">>
        /\ msg = sent

\* A run command of the latest version with a full payload was refused for
\* the flag it loaded, and another thread has resumed the module before this
\* call is back.
C1_Witness ==
    /\ ReturnedRun
    /\ LoadedPaused
    /\ sent.header.version = dcgm_diag_msg_run_version9
    /\ sent.runDiag = FullRunDiag(8)
    /\ retSt = DCGM_ST_PAUSED
    /\ ~m_isPaused
    /\ other.ret = DCGM_ST_OK

\* C2: a stop command is forwarded to StopRunningDiag whatever the pause flag
\* is: the stop path does not load the pause flag, StopRunningDiag is called
\* exactly once, it is the only access the call makes to the module, and its
\* return is the status returned.
C2_StopForwarded ==
    (ReturnedDiag /\ sent.header.subCommand = DCGM_DIAG_SR_STOP) =>
        /\ loads = <<>>
        /\ steps = <<"StopRunningDiag">>
        /\ Len(stopCalls) = 1
        /\ retSt = stopCalls[1]
        /\ runCalls = <<>>

\* A stop command was forwarded, and succeeded, in a module that is paused and
\* that no other thread has called meanwhile.
C2_Witness ==
    /\ ReturnedDiag
    /\ sent.header.subCommand = DCGM_DIAG_SR_STOP
    /\ m_isPaused
    /\ other = NoOther
    /\ stopCalls = <<DCGM_ST_OK>>
    /\ retSt = DCGM_ST_OK

\* C3: a run command whose load of the pause flag finds it clear and whose
\* declared version is none of the run versions 5..9 returns
\* DCGM_ST_VER_MISMATCH, and nothing of a run happens: no upgrade, no
\* sanitization, no bind, no RunDiagAndAction call; the load is the only
\* access the call makes to the module (it stores nothing to the pause flag),
\* and the message is unchanged.
C3_UnknownVersionRejected ==
    (ReturnedRun /\ LoadedNotPaused /\ sent.header.version \notin SupportedRunVersions) =>
        /\ retSt = DCGM_ST_VER_MISMATCH
        /\ NoManagerCall
        /\ NoRunWork
        /\ steps = <<"m_isPaused.load">>
        /\ msg = sent

\* A run command declaring the version after the latest, with a full payload,
\* was rejected for a flag it loaded clear.
C3_Witness ==
    /\ ReturnedRun
    /\ LoadedNotPaused
    /\ sent.header.version = 10
    /\ sent.runDiag = FullRunDiag(7)
    /\ retSt = DCGM_ST_VER_MISMATCH

\* C4: ProcessMessage(nullptr) returns DCGM_ST_BADPARAM before any routing:
\* whatever lies behind the pointer, the call takes no step: the pause flag is
\* neither loaded nor stored, the logging severity is not set, and no
\* diagnostic-manager call is made.
C4_NullCommandRejected ==
    (pc = "returned" /\ sent.ptr = 0) =>
        /\ retSt = DCGM_ST_BADPARAM
        /\ steps = <<>>
        /\ loads = <<>>
        /\ NoManagerCall
        /\ NoRunWork

\* A null command was rejected where a read through the pointer would have
\* found a pause request for the core namespace; the module, which no other
\* thread has called meanwhile, is not paused.
C4_Witness ==
    /\ pc = "returned"
    /\ sent.ptr = 0
    /\ sent.header.moduleId = DcgmModuleIdCore
    /\ sent.header.subCommand = DCGM_CORE_SR_PAUSE_RESUME
    /\ sent.pause
    /\ ~m_isPaused
    /\ other = NoOther
    /\ retSt = DCGM_ST_BADPARAM

\* The subcommand has no handler in the namespace the command is addressed to.
UnknownSubCommand(c) ==
    IF c.header.moduleId = DcgmModuleIdCore
    THEN c.header.subCommand \notin {DCGM_CORE_SR_LOGGING_CHANGED, DCGM_CORE_SR_PAUSE_RESUME}
    ELSE c.header.subCommand \notin {DCGM_DIAG_SR_RUN, DCGM_DIAG_SR_STOP}

\* C5: a subcommand other than run and stop addressed to the diag module, and a
\* subcommand other than logging-changed and pause/resume addressed to the core
\* namespace, returns DCGM_ST_FUNCTION_NOT_FOUND, with no diagnostic-manager
\* call; the call neither loads nor stores the pause flag: it takes no step.
C5_UnknownSubCommand ==
    (Returned /\ UnknownSubCommand(sent)) =>
        /\ retSt = DCGM_ST_FUNCTION_NOT_FOUND
        /\ NoManagerCall
        /\ steps = <<>>
        /\ loads = <<>>

\* The diag module was sent the core's pause subcommand, asking to pause, and
\* answered function-not-found; the module, which no other thread has called
\* meanwhile, is not paused.
C5_Witness ==
    /\ ReturnedDiag
    /\ sent.header.moduleId = DcgmModuleIdDiag
    /\ sent.header.subCommand = DCGM_CORE_SR_PAUSE_RESUME
    /\ sent.pause
    /\ ~m_isPaused
    /\ other = NoOther
    /\ retSt = DCGM_ST_FUNCTION_NOT_FOUND

\* The one access to the module a core command of this subcommand makes.
CoreSteps(subCommand) ==
    CASE subCommand = DCGM_CORE_SR_PAUSE_RESUME -> <<"m_isPaused.store">>
      [] subCommand = DCGM_CORE_SR_LOGGING_CHANGED -> <<"OnLoggingSeverityChange">>
      [] OTHER -> <<>>

\* C6: a command addressed to the core namespace never touches a diagnostic:
\* whatever its subcommand, RunDiagAndAction and StopRunningDiag are not called
\* and nothing of a run happens; the only access it makes to the module's
\* state is the store to the pause flag (pause/resume only) or the change of
\* the logging severity (logging-changed only), and it never loads the flag.
C6_CoreNeverTouchesDiag ==
    (Returned /\ sent.header.moduleId = DcgmModuleIdCore) =>
        /\ NoManagerCall
        /\ NoRunWork
        /\ msg = sent
        /\ loads = <<>>
        /\ steps = CoreSteps(sent.header.subCommand)

\* A core command whose subcommand number is the diag namespace's stop, declaring
\* the latest run version, returned without any call to the diagnostic manager.
C6_Witness ==
    /\ Returned
    /\ sent.header.moduleId = DcgmModuleIdCore
    /\ sent.header.subCommand = DCGM_DIAG_SR_STOP
    /\ sent.header.version = dcgm_diag_msg_run_version9
    /\ retSt = DCGM_ST_FUNCTION_NOT_FOUND
    /\ NoManagerCall

\* The response version the claim gives for each run version.
ClaimedResponseVersion(v) ==
    CASE v = dcgm_diag_msg_run_version5 -> 7
      [] v = dcgm_diag_msg_run_version6 -> 8
      [] v = dcgm_diag_msg_run_version7 -> 9
      [] v = dcgm_diag_msg_run_version8 -> 10
      [] v = dcgm_diag_msg_run_version9 -> 10

\* C7: a run command of a supported version V whose load of the pause flag
\* finds it clear (whatever other threads store to the flag afterwards) is
\* routed to ProcessRun_vV only (versions 5..8 upgrade a copy of the request,
\* version 9 runs the message's own request), the wrapper is bound to response
\* version 7, 8, 9, 10, 10 for V = 5, 6, 7, 8, 9 over the diagResponse of that
\* same message, the answer is written there in that layout, and
\* RunDiagAndAction is called exactly once, its return being the status returned.
C7_RunRouted ==
    (ReturnedRun /\ LoadedNotPaused /\ sent.header.version \in SupportedRunVersions) =>
        /\ Len(runCalls) = 1
        /\ stopCalls = <<>>
        /\ drw = [version |-> ClaimedResponseVersion(sent.header.version),
                  response |-> sent.ptr]
        /\ runCalls[1].drw = drw
        /\ runCalls[1].action = sent.action
        /\ runCalls[1].connectionId = sent.header.connectionId
        /\ retSt = runCalls[1].ret
        /\ msg.diagResponse = ClaimedResponseVersion(sent.header.version)
        /\ IF sent.header.version = dcgm_diag_msg_run_version9
           THEN upgrades = <<>> /\ runCalls[1].drd = msg.runDiag
           ELSE Len(upgrades) = 1 /\ msg.runDiag = sent.runDiag

\* A version 7 run was answered in response layout 9, RunDiagAndAction
\* failing; another thread paused the module after this call's load.
C7_Witness ==
    /\ ReturnedRun
    /\ LoadedNotPaused
    /\ m_isPaused
    /\ sent.header.version = dcgm_diag_msg_run_version7
    /\ drw.version = 9
    /\ Len(runCalls) = 1
    /\ retSt = DCGM_ST_NVVS_ERROR

\* The buffers the claim lists all hold a terminator.
BuffersTerminated(drd) ==
    /\ \A f \in BufferFields \ {"_unusedBuf"} : Terminated(drd[f])
    /\ \A f \in ArrayFields : \A i \in 1..ArrayLen(f) : Terminated(drd[f][i])

\* C8: on every run path, the request passed to RunDiagAndAction has a
\* terminator within the capacity of fakeGpuList, gpuList, debugLogFile,
\* statsPath, configFileContents, throttleMask, pluginPath, every testNames[i]
\* and every testParms[i], whatever the message held.
C8_RunRequestTerminated ==
    \A i \in 1..Len(runCalls) : BuffersTerminated(runCalls[i].drd)

\* A version 9 run whose every buffer was filled to capacity, unterminated,
\* reached RunDiagAndAction.
C8_Witness ==
    /\ ReturnedRun
    /\ sent.header.version = dcgm_diag_msg_run_version9
    /\ sent.runDiag = FullRunDiag(8)
    /\ ~BuffersTerminated(sent.runDiag)
    /\ Len(runCalls) = 1

\* C9: for every run version that upgrades (5..8), ProduceLatestDcgmRunDiag of
\* an all-zero request is the all-zero dcgmRunDiag_v8, in every call that makes
\* the upgrade; and the request such a run, or a version 9 run of an all-zero
\* request, hands to the manager is all-zero as well.
C9_DefaultUpgradesToDefault ==
    sent.runDiag = ZeroRunDiag(RunDiagGen(sent.header.version)) =>
        /\ \A i \in 1..Len(upgrades) : upgrades[i] = ZeroRunDiag(8)
        /\ \A i \in 1..Len(runCalls) : runCalls[i].drd = ZeroRunDiag(8)
        /\ (ReturnedRun /\ LoadedNotPaused
              /\ sent.header.version \in SupportedRunVersions \ {dcgm_diag_msg_run_version9})
               => upgrades = <<ZeroRunDiag(8)>> /\ Len(runCalls) = 1

\* An all-zero version 5 request was upgraded.
C9_Witness ==
    /\ ReturnedRun
    /\ sent.header.version = dcgm_diag_msg_run_version5
    /\ sent.runDiag = ZeroRunDiag(7)
    /\ upgrades = <<ZeroRunDiag(8)>>

\* The string of src fits a destination of capacity n, terminator included.
Fits(src, n) == StrLen(src) < n

\* dst holds the string of src when it fits, and nothing else.
SameString(dst, src) == Fits(src, Len(dst)) => dst = StrBuf(Len(dst), CStr(src))

\* up holds what src holds in every field the upgrade copies.
CopiedFieldsKept(up, src) ==
    /\ \A f \in ScalarFields : up[f] = src[f]
    /\ \A f \in BufferFields \ {"throttleMask", "_unusedBuf"} : SameString(up[f], src[f])
    /\ up.throttleMask = src.throttleMask
    /\ \A f \in ArrayFields : \A i \in 1..ArrayLen(f) : SameString(up[f][i], src[f][i])

\* The scenario: GPU list "0,1" and test name "persistence_mode" on the oldest
\* version upgrade to the same gpuList and testNames[0], everything else default.
ScenarioUpgraded ==
    (sent.header.version = dcgm_diag_msg_run_version5 /\ sent.runDiag = ScenarioRunDiag) =>
        /\ CStr(upgrades[1].gpuList) = Str_0_1
        /\ CStr(upgrades[1].testNames[1]) = Str_persistence_mode
        /\ \A i \in 2..DCGM_MAX_TEST_NAMES : CStr(upgrades[1].testNames[i]) = <<>>
        /\ upgrades[1] = [ZeroRunDiag(8) EXCEPT
                             !.gpuList = StrBuf(DCGM_GPU_LIST_LEN, Str_0_1),
                             !.testNames[1] = StrBuf(DCGM_MAX_TEST_NAMES_LEN,
                                                     Str_persistence_mode)]

\* C10, as claimed: every field of the source whose content fits, "any other
\* buffer the source carries" (_unusedBuf) included, has the same value in the
\* same-named field of the upgraded request.
C10_Original ==
    upgrades # <<>> =>
        /\ CopiedFieldsKept(upgrades[1], sent.runDiag)
        /\ SameString(upgrades[1]._unusedBuf, sent.runDiag._unusedBuf)
        /\ ScenarioUpgraded

\* C10, amended: every field of the source but _unusedBuf whose content fits
\* has the same value in the same-named field, at the same index, of the
\* upgraded request (strings zero-filled to the wider capacity, throttleMask
\* byte for byte); _unusedBuf is not copied and is empty in the upgraded
\* request whatever the source holds; the scenario upgrades as claimed.
C10_FieldsKeptButUnusedBuf ==
    upgrades # <<>> =>
        /\ CopiedFieldsKept(upgrades[1], sent.runDiag)
        /\ upgrades[1]._unusedBuf = ZeroBuf(DCGM_PATH_LEN)
        /\ ScenarioUpgraded

\* The scenario request was upgraded on the oldest version.
C10_Witness ==
    /\ ReturnedRun
    /\ sent.header.version = dcgm_diag_msg_run_version5
    /\ sent.runDiag = ScenarioRunDiag
    /\ Len(upgrades) = 1
    /\ Len(runCalls) = 1

\* Every byte of a but the last is the byte of b.
SameButLastByte(a, b) == Len(a) = Len(b) /\ \A i \in 1..(Len(a) - 1) : a[i] = b[i]

\* Every buffer of the request has the terminator in its last byte.
LastBytesZero(drd) ==
    /\ \A f \in BufferFields : drd[f][Len(drd[f])] = 0
    /\ \A f \in ArrayFields : \A i \in 1..ArrayLen(f) : drd[f][i][Len(drd[f][i])] = 0

\* A run command of the latest version got as far as the manager.
CanonicalRun ==
    /\ ReturnedRun
    /\ LoadedNotPaused
    /\ sent.header.version = dcgm_diag_msg_run_version

\* C11, as claimed: handling a request that is already in the latest shape
\* leaves every field value unchanged: the request the manager is handed, and
\* the one in the message afterwards, are the request as sent.
C11_Original ==
    CanonicalRun =>
        /\ Len(runCalls) = 1
        /\ runCalls[1].drd = sent.runDiag
        /\ msg.runDiag = sent.runDiag

\* C11, amended: a request already in the latest shape (a version 9 message)
\* is not upgraded: ProduceLatestDcgmRunDiag is not called and no buffer is
\* copied; the manager is handed the message's own request, in which every
\* scalar and every byte but the last byte of each buffer is as sent, and the
\* last byte of each buffer is the terminator sanitization writes.  So a
\* request whose buffers end in a terminator is a fixed point: it is handed
\* over, and left in the message, byte for byte as sent.
C11_CanonicalKeptButLastBytes ==
    CanonicalRun =>
        /\ upgrades = <<>>
        /\ copies = <<>>
        /\ Len(runCalls) = 1
        /\ msg.runDiag = runCalls[1].drd
        /\ \A f \in ScalarFields : runCalls[1].drd[f] = sent.runDiag[f]
        /\ \A f \in BufferFields : SameButLastByte(runCalls[1].drd[f], sent.runDiag[f])
        /\ \A f \in ArrayFields : \A i \in 1..ArrayLen(f) :
              SameButLastByte(runCalls[1].drd[f][i], sent.runDiag[f][i])
        /\ LastBytesZero(runCalls[1].drd)
        /\ LastBytesZero(sent.runDiag) <=> runCalls[1].drd = sent.runDiag

\* A version 9 request with a terminated _unusedBuf "ab" reached the manager
\* as sent.
C11_Witness ==
    /\ CanonicalRun
    /\ sent.runDiag = [ZeroRunDiag(8) EXCEPT
                          !._unusedBuf = Buf(DCGM_PATH_LEN, DCGM_PATH_LEN - 1, 0)]
    /\ Len(runCalls) = 1
    /\ runCalls[1].drd = sent.runDiag

\* The string of src cut to what a destination of capacity n can hold.
Truncated(src, n) == SubSeq(CStr(src), 1, Min(StrLen(src), n - 1))

\* C12: every copy the upgrade makes into a char array reads no more bytes
\* than the source field holds and writes no more than the destination field
\* holds: each testNames[i] and testParms[i], the five string fields,
\* pluginPath, and throttleMask, copied whole with the source's size.  Every
\* upgraded buffer has its declared capacity, and holds the source's string,
\* cut to capacity - 1 bytes when the source is longer.
C12_CopiesWithinCapacity ==
    /\ \A i \in 1..Len(copies) :
          copies[i].read <= copies[i].srcCap /\ copies[i].written <= copies[i].dstCap
    /\ upgrades # <<>> =>
          /\ Len(copies) = DCGM_MAX_TEST_NAMES + DCGM_MAX_TEST_PARMS + 7
          /\ \E i \in 1..Len(copies) :
                copies[i].field = "throttleMask" /\ copies[i].read = copies[i].srcCap
          /\ \A f \in BufferFields :
                /\ Len(upgrades[1][f]) = BufferCap(f)
                /\ f \notin {"throttleMask", "_unusedBuf"} =>
                      CStr(upgrades[1][f]) = Truncated(sent.runDiag[f], BufferCap(f))
          /\ upgrades[1].throttleMask = sent.runDiag.throttleMask
          /\ \A f \in ArrayFields :
                /\ Len(upgrades[1][f]) = ArrayLen(f)
                /\ \A i \in 1..ArrayLen(f) :
                      /\ Len(upgrades[1][f][i]) = ElemCap(8, f)
                      /\ CStr(upgrades[1][f][i]) = Truncated(sent.runDiag[f][i], ElemCap(8, f))

\* A request whose gpuList fills its buffer with no terminator was upgraded:
\* the string was cut by one byte, throttleMask was copied whole.
C12_Witness ==
    /\ ReturnedRun
    /\ sent.header.version = dcgm_diag_msg_run_version5
    /\ Len(upgrades) = 1
    /\ StrLen(sent.runDiag.gpuList) = DCGM_GPU_LIST_LEN
    /\ StrLen(upgrades[1].gpuList) = DCGM_GPU_LIST_LEN - 1
    /\ StrLen(sent.runDiag.throttleMask) = DCGM_THROTTLE_MASK_LEN
    /\ \E i \in 1..Len(copies) :
          copies[i].field = "gpuList" /\ copies[i].written = copies[i].dstCap

(***************************************************************************)
(* Properties of the run handlers.                                         *)
(***************************************************************************)
\* A run handler, entered through ProcessMessage or on its own, has returned.
RunHandlerReturned ==
    \/ pc = "returned" /\ handler \in RunHandlers
    \/ ReturnedRun /\ handler = "ProcessMessage" /\ LoadedNotPaused
          /\ sent.header.version \in SupportedRunVersions

\* The version the handler that ran is written for.
HandledVersion ==
    IF handler \in RunHandlers THEN HandlerVersion(handler) ELSE sent.header.version

\* The positions in steps of the calls named call.
StepsOf(call) == {i \in 1..Len(steps) : steps[i] = call}

\* C13: on every route through ProcessRun_v5..v9 the wrapper is bound at most
\* once.  A route that reaches RunDiagAndAction makes exactly one SetVersion
\* call, before the one RunDiagAndAction call, to the response version of that
\* handler (7, 8, 9, 10, 10), and the wrapper the handler ends with is the one
\* it passed: it was not bound again.  A route that returns a version error
\* makes no SetVersion call and leaves the wrapper unbound.
C13_BoundAtMostOnce ==
    RunHandlerReturned =>
        /\ Cardinality(StepsOf("SetVersion")) <= 1
        /\ runCalls # <<>> =>
              /\ Cardinality(StepsOf("SetVersion")) = 1
              /\ Cardinality(StepsOf("RunDiagAndAction")) = 1
              /\ \A i \in StepsOf("SetVersion") : \A j \in StepsOf("RunDiagAndAction") : i < j
              /\ Len(runCalls) = 1
              /\ runCalls[1].drw = [version |-> ClaimedResponseVersion(HandledVersion),
                                    response |-> sent.ptr]
              /\ drw = runCalls[1].drw
        /\ retSt = DCGM_ST_VER_MISMATCH =>
              /\ StepsOf("SetVersion") = {}
              /\ drw = NewWrapper
              /\ runCalls = <<>>

\* ProcessRun_v8 returned a version error for a message declaring version 9.
C13_Witness ==
    /\ pc = "returned"
    /\ handler = "ProcessRun_v8"
    /\ sent.header.version = dcgm_diag_msg_run_version9
    /\ "CheckVersion" \in {steps[i] : i \in 1..Len(steps)}
    /\ retSt = DCGM_ST_VER_MISMATCH
    /\ drw = NewWrapper

(***************************************************************************)
(* Properties of the module under two calling threads.                     *)
(***************************************************************************)
\* C15: a stop command is never held up by a run in flight: its ProcessMessage
\* call can always go ahead, makes the one StopRunningDiag call and nothing
\* else (no pause gate, no wait), and returns that call's status; once the
\* stop has returned the stop signal is raised, also while the run it was
\* sent for is still inside RunDiagAndAction.
C15_StopSignalsAndReturns ==
    \A t \in Threads :
        /\ (tpc[t] = "called" /\ IsStop(tcmd[t])) => ENABLED ThreadProcess(t)
        /\ (tpc[t] = "returned" /\ IsStop(tcmd[t])) =>
              /\ stopSignal
              /\ tout[t].steps = <<"StopRunningDiag">>
              /\ tout[t].stopCalls = <<tout[t].ret>>
              /\ tout[t].runCalls = <<>>

\* A stop handled while the other thread was inside RunDiagAndAction has
\* returned, and that run is still in flight.
C15_Witness ==
    \E t \in Threads : \E u \in Threads \ {t} :
        /\ tpc[t] = "returned"
        /\ IsStop(tcmd[t])
        /\ tseen[t].running = {u}
        /\ tpc[u] = "RunDiagAndAction"
        /\ stopSignal

\* C16: the pause flag is the value the last pause/resume message handled
\* carried, FALSE before the first.  A run handled after pause = TRUE is
\* refused with DCGM_ST_PAUSED and calls nothing; a run of a supported version
\* handled after pause = FALSE, or before any pause message, reaches
\* RunDiagAndAction once.
C16_PauseFollowsLastMessage ==
    /\ m_isPaused = lastPause
    /\ \A t \in Threads :
          (tpc[t] \in {"RunDiagAndAction", "returned"} /\ IsRun(tcmd[t])) =>
              IF tseen[t].paused
              THEN /\ tpc[t] = "returned"
                   /\ tout[t].ret = DCGM_ST_PAUSED
                   /\ tout[t].runCalls = <<>>
                   /\ tout[t].stopCalls = <<>>
              ELSE tcmd[t].header.version \in SupportedRunVersions =>
                      /\ Len(tout[t].runCalls) = 1
                      /\ tout[t].ret = tout[t].runCalls[1].ret

\* A run was refused while paused and, after pause = FALSE, the same run sent
\* again is inside RunDiagAndAction.
C16_Witness ==
    \E t \in Threads : \E u \in Threads \ {t} :
        /\ tpc[t] = "returned"
        /\ IsRun(tcmd[t])
        /\ tout[t].ret = DCGM_ST_PAUSED
        /\ tcmd[u] = tcmd[t]
        /\ tpc[u] = "RunDiagAndAction"
        /\ ~tseen[u].paused
        /\ ~m_isPaused

\* C20: RunDiagAndAction is never executing on two threads at once.
C20_SingleActiveRun ==
    Cardinality(Running) <= 1

(***************************************************************************)
(* Properties of the Software plugin's checks.                             *)
(***************************************************************************)
\* The latest iteration has ended: the loop body ran to a continue or to
\* its end.
IterationEnded == swIter.check # "none" /\ swIter.done

\* The answers the latest iteration got, in order.
Answered(k) == swIter.queries[k].ans

\* The query returned OK with status OK and a value that is not blank.
Readable(ans) == ans.ret = DCGM_ST_OK /\ ~Unreadable(ans)

\* The error the latest iteration added, if it added exactly one.
AddedOneError(code) ==
    /\ Len(swErrors) = Len(swIter.errorsBefore) + 1
    /\ SubSeq(swErrors, 1, Len(swIter.errorsBefore)) = swIter.errorsBefore
    /\ swErrors[Len(swErrors)].gpuId = swIter.gpuId
    /\ swErrors[Len(swErrors)].code = code

\* checkPageRetirement has dealt with a GPU that reported a pending page
\* retirement count > 0.
PendingReported ==
    /\ IterationEnded
    /\ swIter.check = "checkPageRetirement"
    /\ Readable(Answered(1))
    /\ Answered(1).value > 0

\* The query of the volatile double-bit-error total returned OK with a
\* value that is not blank and > 0, whatever the status of the value.
DbeTotalPositive ==
    /\ Answered(2).ret = DCGM_ST_OK
    /\ ~DCGM_INT64_IS_BLANK(Answered(2).value)
    /\ Answered(2).value > 0

\* C17, as claimed: when GPU g reports a pending page retirement count > 0,
\* the result is FAIL, exactly one error referencing g is added,
\* DBE_PENDING_PAGE_RETIREMENTS when the double-bit-error total is readable
\* (the query returned OK, the value's status is OK, the value is not blank)
\* and > 0, PENDING_PAGE_RETIREMENTS otherwise, and main_should_stop is 1.
C17_Original ==
    PendingReported =>
        /\ swResults[swIter.gpuId] = NVVS_RESULT_FAIL
        /\ AddedOneError(IF Readable(Answered(2)) /\ Answered(2).value > 0
                         THEN "DCGM_FR_DBE_PENDING_PAGE_RETIREMENTS"
                         ELSE "DCGM_FR_PENDING_PAGE_RETIREMENTS")
        /\ main_should_stop = 1

\* C17, amended: in checkPageRetirement, when GPU g reports a pending page
\* retirement count > 0, the result is FAIL, exactly one error referencing g
\* is added (DBE_PENDING_PAGE_RETIREMENTS when the query of the volatile
\* double-bit-error total returned OK with a value that is not blank and > 0,
\* the status of that value not being looked at; PENDING_PAGE_RETIREMENTS
\* otherwise, also when that query failed), and main_should_stop is 1.
C17_PendingRetirementFailsAndStops ==
    PendingReported =>
        /\ swResults[swIter.gpuId] = NVVS_RESULT_FAIL
        /\ AddedOneError(IF DbeTotalPositive THEN "DCGM_FR_DBE_PENDING_PAGE_RETIREMENTS"
                         ELSE "DCGM_FR_PENDING_PAGE_RETIREMENTS")
        /\ main_should_stop = 1

\* The scenario: a double-bit-error-linked pending retirement on GPU 3, found
\* while the stop flag was clear.
C17_Witness ==
    /\ PendingReported
    /\ DbeTotalPositive
    /\ swIter.gpuId = 3
    /\ swIter.stopBefore = 0
    /\ main_should_stop = 1

\* The query the latest iteration asked last, and its answer.
LastField == swIter.queries[Len(swIter.queries)].field

LastAnswer == Answered(Len(swIter.queries))

\* GetCurrentFieldValue returned non-OK for the latest query of a check.
QueryFailed == swIter.check # "none" /\ LastAnswer.ret # DCGM_ST_OK

\* The loop body has ended and, unless this GPU was the last of the list, the
\* check is at the first query of the next GPU.
ContinuesWithNextGpu ==
    /\ swIter.done
    /\ swIter.idx < Len(swGpuList) =>
          swPc = [test |-> swPc.test, check |-> swIter.check, idx |-> swIter.idx + 1,
                  query |-> FirstQuery(swIter.check)]

\* What the claim says of a failed query.
RecordedAndSkipped ==
    /\ AddedOneError("DCGM_FR_FIELD_QUERY")
    /\ swResults[swIter.gpuId] = NVVS_RESULT_FAIL
    /\ main_should_stop = swIter.stopBefore
    /\ ContinuesWithNextGpu

\* C18 as stated: every failed telemetry query for GPU g in the four checks
\* records a FIELD_QUERY error for g, marks the check failed, leaves the stop
\* flag alone, and the loop continues with the next GPU.
C18_Original == QueryFailed => RecordedAndSkipped

\* The queries a check makes only once a pending retirement or a pending row
\* remap was found, to tell its kind; their return is not tested for failure
\* on its own.
FollowUpQueries ==
    {"DCGM_FI_DEV_ECC_DBE_VOL_TOTAL", "DCGM_FI_DEV_UNCORRECTABLE_REMAPPED_ROWS"}

\* C18, amended: a failed query of a check's own field (pending, DBE and SBE
\* retired pages; row remap failure and pending; inforom validity; graphics
\* pids) records a FIELD_QUERY error for g, marks g failed, leaves the stop
\* flag as it was and continues with the next GPU; a failed follow-up query
\* records no FIELD_QUERY error: the pending retirement or remap that led to
\* it is recorded as PENDING_PAGE_RETIREMENTS or PENDING_ROW_REMAP, g is
\* marked failed, the stop flag is set, and the loop continues as well.
C18_FailedQueryOfCheckedField ==
    QueryFailed =>
        IF LastField \notin FollowUpQueries
        THEN RecordedAndSkipped
        ELSE /\ AddedOneError(IF swIter.check = "checkPageRetirement"
                              THEN "DCGM_FR_PENDING_PAGE_RETIREMENTS"
                              ELSE "DCGM_FR_PENDING_ROW_REMAP")
             /\ swResults[swIter.gpuId] = NVVS_RESULT_FAIL
             /\ main_should_stop = 1
             /\ ContinuesWithNextGpu

\* The second query of a row-remap iteration fails on a GPU that is not the
\* last, with the stop flag clear.
C18_Witness ==
    /\ QueryFailed
    /\ LastField = "DCGM_FI_DEV_ROW_REMAP_PENDING"
    /\ swIter.idx < Len(swGpuList)
    /\ swIter.stopBefore = 0
    /\ swPc.idx = swIter.idx + 1

\* The error that tells a critical failure in a check's loop: a pending page
\* retirement linked to double-bit errors, an uncorrectable row remap.
CriticalCode(check) ==
    IF check = "checkPageRetirement" THEN "DCGM_FR_DBE_PENDING_PAGE_RETIREMENTS"
    ELSE IF check = "checkRowRemapping" THEN "DCGM_FR_UNCORRECTABLE_ROW_REMAP"
    ELSE "none"

\* The loop of the latest iteration has detected a critical failure on gpuId.
CriticalDetectedOn(gpuId) ==
    \E k \in 1..Len(swErrors) :
        swErrors[k].gpuId = gpuId /\ swErrors[k].code = CriticalCode(swIter.check)

\* C19 as stated: once a critical failure has been detected on some GPU of
\* the list, no GPU later in the list is checked in that loop.
C19_Original ==
    \A i, j \in 1..Len(swChecked) : i < j => ~CriticalDetectedOn(swChecked[i].gpuId)

\* C19, amended: the loops never read the stop flag. An iteration that has
\* detected a critical failure sets the flag and continues: unless its GPU
\* was the last of the list the check is at the first query of the next GPU,
\* and when the loop has ended every GPU of the list has been checked, in
\* list order, whatever the flag was.
C19_LaterGpusStillChecked ==
    /\ (IterationEnded /\ CriticalDetectedOn(swIter.gpuId)) =>
          /\ main_should_stop = 1
          /\ ContinuesWithNextGpu
    /\ (IterationEnded /\ swIter.idx = Len(swGpuList)) =>
          [k \in 1..Len(swChecked) |-> swChecked[k].gpuId] = swGpuList

\* checkRowRemapping checks a later GPU after an uncorrectable row remap on
\* the first one, with the stop flag set.
C19_Witness ==
    /\ swIter.check = "checkRowRemapping"
    /\ swIter.idx = 2
    /\ swIter.stopBefore = 1
    /\ swChecked[2].stop = 1
    /\ CriticalDetectedOn(swGpuList[1])

(***************************************************************************)
(* Properties of an accepted run.                                          *)
(***************************************************************************)
\* A run command was routed to its handler, passed the version check and
\* reached the diagnostic manager.
AcceptedRun == RunHandlerReturned /\ runCalls # <<>>

\* The position in steps of the one call named call, 0 when it was not made.
StepOf(call) == IF StepsOf(call) = {} THEN 0 ELSE CHOOSE i \in StepsOf(call) : TRUE

\* The steps of the handler, without the load of the pause flag before it.
HandlerSteps == SelectSeq(steps, LAMBDA c : c # "m_isPaused.load")

\* C22 as stated: on every accepted run the canonical request is sanitized
\* after the upgrade and before the wrapper is bound, and the manager is
\* invoked after the bind.
C22_Original ==
    AcceptedRun =>
        /\ StepOf("ProduceLatestDcgmRunDiag") < StepOf("Sanitize")
        /\ StepOf("Sanitize") < StepOf("SetVersion")
        /\ StepOf("SetVersion") < StepOf("RunDiagAndAction")

\* C22, amended: on every accepted run the handler's steps are, in this
\* order and each once: the upgrade (for declared versions 5 to 8; version 9
\* is canonical and has none), the version check, the bind of the wrapper to
\* the caller's response version, the sanitization of the canonical request,
\* the call of the diagnostic manager with the sanitized request and the
\* bound wrapper.  The bind precedes the sanitization.
C22_BindThenSanitize ==
    AcceptedRun =>
        /\ HandlerSteps =
              (IF HandledVersion = dcgm_diag_msg_run_version9
               THEN <<>> ELSE <<"ProduceLatestDcgmRunDiag">>)
              \o <<"CheckVersion", "SetVersion", "Sanitize", "RunDiagAndAction">>
        /\ Len(runCalls) = 1
        /\ runCalls[1].drd =
              SanitizeInputs(IF HandledVersion = dcgm_diag_msg_run_version9
                             THEN sent.runDiag ELSE upgrades[1])
        /\ runCalls[1].drw.version = ClaimedResponseVersion(HandledVersion)

\* An accepted run of version 5 whose request had an unterminated buffer, so
\* that the sanitization had something to do.
C22_Witness ==
    /\ AcceptedRun
    /\ HandledVersion = dcgm_diag_msg_run_version5
    /\ upgrades # <<>>
    /\ runCalls[1].drd # upgrades[1]
    /\ StepOf("SetVersion") < StepOf("Sanitize")

(***************************************************************************)
(* Properties of the pause gate under two calling threads.                 *)
(***************************************************************************)
\* C29: once a pause = TRUE message has been processed, and until a
\* pause = FALSE message is, no RunDiagAndAction call begins: in no step taken
\* while the last pause/resume message processed carried TRUE, and which is
\* not the processing of a pause = FALSE message, does a thread enter
\* RunDiagAndAction.
C29_PauseExcludesNewRuns ==
    [][(lastPause /\ lastPause') => Running' \subseteq Running]_vars

(***************************************************************************)
(* Properties of two runs in flight at once.                               *)
(***************************************************************************)
\* Thread t's call is a run that reached the diagnostic manager.
RunInFlight(t) ==
    /\ tpc[t] \in {"RunDiagAndAction", "returned"}
    /\ tout[t].runCalls # <<>>

\* Where an object thread t's call touched lives: a member is the module's,
\* one for all threads; a local or a part of the caller's message is t's own.
Place(t, obj) ==
    IF obj.storage = "member" THEN <<"module", obj.object>> ELSE <<t, obj.object>>

Places(t) == {Place(t, obj) : obj \in tout[t].touched}

\* The places of the objects playing role in thread t's call.
PlacesOf(t, role) == {Place(t, obj) : obj \in {x \in tout[t].touched : x.role = role}}

\* C21: when two run commands have reached the manager on two threads, each
\* run has one response wrapper and one canonical request, neither of which
\* the other run touches, and the only places both calls read or write are
\* the pause flag and the diagnostic manager, which holds the stop signal.
C21_RunsShareOnlyFlags ==
    \A t \in Threads : \A u \in Threads \ {t} :
        (RunInFlight(t) /\ RunInFlight(u)) =>
            /\ Cardinality(PlacesOf(t, "wrapper")) = 1
            /\ Cardinality(PlacesOf(t, "request")) = 1
            /\ PlacesOf(t, "wrapper") \cap Places(u) = {}
            /\ PlacesOf(t, "request") \cap Places(u) = {}
            /\ Places(t) \cap Places(u) = {Place(t, PauseFlag), Place(t, Manager)}

\* A run of version 5 (local upgraded copy) and a run of version 9 (its own
\* message) are inside RunDiagAndAction at once.
C21_Witness ==
    \E t \in Threads : \E u \in Threads \ {t} :
        /\ tpc[t] = "RunDiagAndAction"
        /\ tpc[u] = "RunDiagAndAction"
        /\ LocalRequest \in tout[t].touched
        /\ MessageRequest \in tout[u].touched

(***************************************************************************)
(* What a run leaves of the caller's message.                              *)
(***************************************************************************)
\* Buffer a is buffer b, but for a last byte that was forced to 0.
TerminatorForced(a, b) == SameButLastByte(a, b) /\ a[Len(a)] \in {0, b[Len(b)]}

\* C30: after a run message was processed, on any path (refused while
\* paused, unknown version, accepted), its header, action and the scalar
\* fields of its request are as sent; for versions 5 to 8 the whole request is
\* as sent; for version 9 each character buffer of the request is as sent but
\* for its last byte, which is as sent or 0.
C30_RequestKeptButTerminators ==
    ReturnedRun =>
        /\ msg.ptr = sent.ptr
        /\ msg.header = sent.header
        /\ msg.action = sent.action
        /\ msg.pause = sent.pause
        /\ \A f \in ScalarFields : msg.runDiag[f] = sent.runDiag[f]
        /\ sent.header.version # dcgm_diag_msg_run_version9 => msg.runDiag = sent.runDiag
        /\ \A f \in BufferFields : TerminatorForced(msg.runDiag[f], sent.runDiag[f])
        /\ \A f \in ArrayFields : \A i \in 1..ArrayLen(f) :
              TerminatorForced(msg.runDiag[f][i], sent.runDiag[f][i])

\* A version 9 run whose request had an unterminated buffer: the message
\* comes back with that buffer's last byte forced to 0.
C30_Witness ==
    /\ ReturnedRun
    /\ sent.header.version = dcgm_diag_msg_run_version9
    /\ ~LastBytesZero(sent.runDiag)
    /\ LastBytesZero(msg.runDiag)
    /\ runCalls # <<>>

(***************************************************************************)
(* Properties of the retired-pages limit, the row remaps, the stop flag.   *)
(***************************************************************************)
\* The number of queries the latest iteration made, all of which returned OK.
AskedAllOk(n) ==
    /\ IterationEnded
    /\ Len(swIter.queries) = n
    /\ \A k \in 1..n : Answered(k).ret = DCGM_ST_OK

\* What a count adds to the total: its value when readable, 0 otherwise.
Contribution(ans) == IF Readable(ans) THEN ans.value ELSE 0

\* The latest iteration added no error, set no result and left the flag.
NothingRecorded ==
    /\ swErrors = swIter.errorsBefore
    /\ swResults = swIter.resultsBefore
    /\ main_should_stop = swIter.stopBefore

\* checkPageRetirement went through a GPU with no pending retirement (the
\* count 0, blank or unreadable) and read both retired-page counts.
RetiredPagesCounted ==
    /\ swIter.check = "checkPageRetirement"
    /\ AskedAllOk(3)
    /\ swIter.queries[2].field = "DCGM_FI_DEV_RETIRED_DBE"
    /\ swIter.queries[3].field = "DCGM_FI_DEV_RETIRED_SBE"

\* C26: for such a GPU a RETIRED_PAGES_LIMIT error is added, the result set
\* to FAIL and the stop flag set exactly when the readable DBE and SBE counts
\* sum to DCGM_LIMIT_MAX_RETIRED_PAGES or more, an unreadable count adding 0;
\* below the limit the iteration adds no error, sets no result and leaves
\* the flag as it found it.
C26_RetiredPagesLimit ==
    RetiredPagesCounted =>
        IF Contribution(Answered(2)) + Contribution(Answered(3))
              >= DCGM_LIMIT_MAX_RETIRED_PAGES
        THEN /\ AddedOneError("DCGM_FR_RETIRED_PAGES_LIMIT")
             /\ swResults[swIter.gpuId] = NVVS_RESULT_FAIL
             /\ main_should_stop = 1
        ELSE NothingRecorded

\* The two counts sum to the limit exactly, and the flag was clear before.
C26_Witness ==
    /\ RetiredPagesCounted
    /\ Contribution(Answered(2)) + Contribution(Answered(3)) = DCGM_LIMIT_MAX_RETIRED_PAGES
    /\ swIter.stopBefore = 0
    /\ main_should_stop = 1

\* The value was read and is > 0.
Positive(ans) == Readable(ans) /\ ans.value > 0

\* The result of the iteration's GPU alone was set to FAIL.
OnlyThisGpuFailed ==
    swResults = [swIter.resultsBefore EXCEPT ![swIter.gpuId] = NVVS_RESULT_FAIL]

\* C27: in checkRowRemapping, queries answering OK: a readable failure value
\* > 0 ends the iteration after that one query (the pending check is
\* skipped); else a readable pending value > 0 is followed by the query of the
\* uncorrectable rows; either adds one error for g (ROW_REMAP_FAILURE;
\* UNCORRECTABLE_ROW_REMAP or PENDING_ROW_REMAP), sets the result of g alone
\* to FAIL and sets the stop flag.  When neither value is readable and > 0,
\* nothing is recorded and the flag is left as it was.
C27_RowRemapFailsOneGpu ==
    (swIter.check = "checkRowRemapping" /\ IterationEnded /\ Answered(1).ret = DCGM_ST_OK) =>
        IF Positive(Answered(1))
        THEN /\ Len(swIter.queries) = 1
             /\ AddedOneError("DCGM_FR_ROW_REMAP_FAILURE")
             /\ OnlyThisGpuFailed
             /\ main_should_stop = 1
        ELSE /\ Len(swIter.queries) >= 2
             /\ swIter.queries[2].field = "DCGM_FI_DEV_ROW_REMAP_PENDING"
             /\ Answered(2).ret = DCGM_ST_OK =>
                   IF Positive(Answered(2))
                   THEN /\ Len(swIter.queries) = 3
                        /\ \/ AddedOneError("DCGM_FR_UNCORRECTABLE_ROW_REMAP")
                           \/ AddedOneError("DCGM_FR_PENDING_ROW_REMAP")
                        /\ OnlyThisGpuFailed
                        /\ main_should_stop = 1
                   ELSE Len(swIter.queries) = 2 /\ NothingRecorded

\* A pending row remap on the second GPU, after the first GPU passed the
\* check with no result set: the first GPU's result stays unset.
C27_Witness ==
    /\ swIter.check = "checkRowRemapping"
    /\ IterationEnded
    /\ swIter.idx = 2
    /\ ~Positive(Answered(1))
    /\ Len(swIter.queries) = 3
    /\ swResults[swGpuList[1]] = NoResultSet
    /\ swResults[swGpuList[2]] = NVVS_RESULT_FAIL
    /\ main_should_stop = 1

\* C28: within a run of the plugin (Go entered, and until its process ends)
\* no step takes main_should_stop from 1 back to 0: not a later query of the
\* GPU, not a later GPU, not the check that follows.
C28_StopFlagMonotonic ==
    [][(main_should_stop = 1 /\ swPc' # SwIdle) => main_should_stop' = 1]_vars

\* The flag set by checkPageRetirement is still set while checkRowRemapping
\* is at its second GPU, after a failed query there.
C28_Witness ==
    /\ swIter.check = "checkRowRemapping"
    /\ swIter.idx = 2
    /\ swChecked[1].stop = 1
    /\ QueryFailed
    /\ main_should_stop = 1

(***************************************************************************)
(* Properties of the plugin interface.                                     *)
(***************************************************************************)
\* The functions of the interface other than the two the host loads with.
InvokingFunctions ==
    {"InitializePlugin", "RunTest", "RetrieveCustomStats", "RetrieveResults", "ShutdownPlugin"}

\* The plugin reported an interface version other than the host's.
VersionDiffers ==
    /\ pluginCalls # <<>>
    /\ pluginCalls[1].fn = "GetPluginInterfaceVersion"
    /\ pluginCalls[1].ret # DCGM_DIAG_PLUGIN_INTERFACE_VERSION

\* C23: the first call on a plugin is GetPluginInterfaceVersion; when the
\* version it returns differs from DCGM_DIAG_PLUGIN_INTERFACE_VERSION, none
\* of InitializePlugin, RunTest, RetrieveCustomStats, RetrieveResults and
\* ShutdownPlugin is ever called on the plugin and a load failure is
\* reported.
C23_VersionCheckedFirst ==
    /\ pluginCalls # <<>> => pluginCalls[1].fn = "GetPluginInterfaceVersion"
    /\ VersionDiffers =>
          /\ loadFailure
          /\ \A i \in 1..Len(pluginCalls) : pluginCalls[i].fn \notin InvokingFunctions

\* A plugin built against the newer interface has been refused.
C23_Witness ==
    /\ VersionDiffers
    /\ pluginCalls[1].ret > DCGM_DIAG_PLUGIN_INTERFACE_VERSION
    /\ hostPc = "loadFailed"
    /\ loadFailure

\* Call i was made after an InitializePlugin that returned one of rets.
AfterInitialize(i, rets) ==
    \E j \in 1..(i - 1) :
        pluginCalls[j].fn = "InitializePlugin" /\ pluginCalls[j].ret \in rets

\* ShutdownPlugin, where called, is the last call, and every function that
\* takes userData was passed the value InitializePlugin wrote.
ShutdownLastAndTokenKept ==
    \A i \in 1..Len(pluginCalls) :
        /\ pluginCalls[i].fn = "ShutdownPlugin" => i = Len(pluginCalls)
        /\ pluginCalls[i].fn \in UserDataFunctions => pluginCalls[i].userData = pluginToken

\* C24: RunTest, RetrieveCustomStats and RetrieveResults are called only
\* after InitializePlugin has returned DCGM_ST_OK (after a failure or a
\* timeout none of them is), ShutdownPlugin is the last call, and the
\* userData passed to each is the value InitializePlugin stored.
C24_InitRunRetrieveShutdown ==
    /\ \A i \in 1..Len(pluginCalls) :
          pluginCalls[i].fn \in {"RunTest", "RetrieveCustomStats", "RetrieveResults"}
             => AfterInitialize(i, {DCGM_ST_OK})
    /\ hostPc = "initFailed" => pluginCalls[Len(pluginCalls)].fn = "InitializePlugin"
    /\ ShutdownLastAndTokenKept

\* A whole sequence with a token the plugin chose, shut down at the end.
C24_Witness ==
    /\ hostPc = "shutdown"
    /\ pluginToken = "pluginB"
    /\ \E i \in 1..Len(pluginCalls) : pluginCalls[i].fn = "RunTest"
    /\ \E i \in 1..Len(pluginCalls) : pluginCalls[i].fn = "RetrieveCustomStats"
    /\ pluginCalls[Len(pluginCalls) - 1].fn = "RetrieveResults"
    /\ pluginCalls[Len(pluginCalls)].fn = "ShutdownPlugin"

\* The custom stats in the order they were produced.
StatsProduced(n) == [i \in 1..n |-> i]

\* C25: every collection the plugin hands over stays within its array
\* (numResults <= DCGM_MAX_NUM_DEVICES, numErrors <= DCGM_DIAG_MAX_ERRORS,
\* numInfo <= DCGM_DIAG_MAX_INFO, numStats <= DCGM_DIAG_MAX_CUSTOM_STATS),
\* whatever was added; a retrieval that leaves custom stats behind sets
\* moreStats to 1, and once moreStats is 0 the host holds every custom stat
\* produced, each once and in order.
C25_BoundedCollections ==
    /\ diagResults.numResults <= DCGM_MAX_NUM_DEVICES
    /\ diagResults.numErrors <= DCGM_DIAG_MAX_ERRORS
    /\ diagResults.numInfo <= DCGM_DIAG_MAX_INFO
    /\ customStats.numStats <= DCGM_DIAG_MAX_CUSTOM_STATS
    /\ Len(customStats.stats) = customStats.numStats
    /\ hostPc \in {"ran", "statsRetrieved"} /\ statsCursor < pluginStats /\ statsCursor > 0
          => customStats.moreStats = 1
    /\ hostPc \in {"statsRetrieved", "resultsRetrieved", "shutdown"} /\ pluginStats > 0
          => customStats.moreStats = 0 /\ hostStats = StatsProduced(pluginStats)

\* More of everything than the arrays hold: the stats took three retrievals
\* and all arrived, the other counts stand at their capacities.
C25_Witness ==
    /\ hostPc = "resultsRetrieved"
    /\ pluginStats > 2 * DCGM_DIAG_MAX_CUSTOM_STATS
    /\ hostStats = StatsProduced(pluginStats)
    /\ Cardinality(pluginResults) > DCGM_MAX_NUM_DEVICES
    /\ pluginErrors > DCGM_DIAG_MAX_ERRORS
    /\ pluginInfo > DCGM_DIAG_MAX_INFO
    /\ diagResults = [numResults |-> DCGM_MAX_NUM_DEVICES, numErrors |-> DCGM_DIAG_MAX_ERRORS,
                      numInfo |-> DCGM_DIAG_MAX_INFO]

(***************************************************************************)
(* Properties of the core-control path and of the routing by module id.    *)
(***************************************************************************)
\* The pause/resume messages that carry pause = false.
ResumeMessages ==
    {c \in HeaderCommands :
        /\ c.header.moduleId = DcgmModuleIdCore
        /\ c.header.subCommand = DCGM_CORE_SR_PAUSE_RESUME
        /\ ~c.pause}

\* C31: pause is always reversible.  A pause/resume message with pause = false
\* is accepted whatever the pause flag is: the call never loads the flag, its
\* one access to the module is the store, and it returns DCGM_ST_OK; and in
\* every reachable state in which the module is paused, each such message,
\* whatever version and connection it declares, is accepted and stores false:
\* the module is unpaused until some later call stores true.
C31_PauseReversible ==
    /\ (Returned /\ sent \in ResumeMessages) =>
          /\ retSt = DCGM_ST_OK
          /\ loads = <<>>
          /\ steps = <<"m_isPaused.store">>
          /\ other = NoOther => ~m_isPaused
    /\ m_isPaused =>
          \A c \in ResumeMessages, env \in Envs :
              LET o == ProcessMessage(c, [isPaused |-> m_isPaused,
                                          severity |-> loggingSeverity], env)
              IN  o.ret = DCGM_ST_OK /\ ~o.isPaused

\* The module was paused when this call's resume message was handled (the
\* latest call of another thread was a run it refused as paused) and is
\* unpaused since.
C31_Witness ==
    /\ Returned
    /\ sent \in ResumeMessages
    /\ other.ret = DCGM_ST_PAUSED
    /\ retSt = DCGM_ST_OK
    /\ ~m_isPaused

\* C32: the namespace is chosen by moduleId alone.  A core command whose
\* subcommand is the number of the diagnostic run or stop is handled as
\* core-control: unknown there, it returns DCGM_ST_FUNCTION_NOT_FOUND with no
\* step of the diagnostic path taken.  A command with any other moduleId is
\* read with the diagnostic table: stop goes to StopRunningDiag, run loads the
\* pause flag, and the numbers of the core's logging-changed and pause/resume
\* subcommands are unknown: the call takes no step, so it makes no store to
\* the pause flag and no change of the severity.
C32_RoutedByModuleId ==
    /\ (Returned /\ sent.header.moduleId = DcgmModuleIdCore
                 /\ sent.header.subCommand \in {DCGM_DIAG_SR_RUN, DCGM_DIAG_SR_STOP}) =>
          retSt = DCGM_ST_FUNCTION_NOT_FOUND /\ steps = <<>> /\ loads = <<>>
    /\ ReturnedDiag =>
          /\ sent.header.subCommand = DCGM_DIAG_SR_STOP =>
                /\ steps = <<"StopRunningDiag">>
                /\ Len(stopCalls) = 1
                /\ retSt = stopCalls[1]
          /\ sent.header.subCommand = DCGM_DIAG_SR_RUN =>
                /\ steps # <<>>
                /\ steps[1] = "m_isPaused.load"
                /\ Len(loads) = 1
          /\ sent.header.subCommand \in {DCGM_CORE_SR_LOGGING_CHANGED,
                                          DCGM_CORE_SR_PAUSE_RESUME} =>
                /\ retSt = DCGM_ST_FUNCTION_NOT_FOUND
                /\ steps = <<>>
                /\ loads = <<>>

\* A run command carrying the policy module's id ran a diagnostic.
C32_Witness ==
    /\ ReturnedDiag
    /\ sent.header.moduleId = DcgmModuleIdPolicy
    /\ sent.header.subCommand = DCGM_DIAG_SR_RUN
    /\ sent.header.version = dcgm_diag_msg_run_version9
    /\ Len(runCalls) = 1

(***************************************************************************)
(* Properties of checkForGraphicsProcesses and checkInforom.               *)
(***************************************************************************)
\* Go has run the test to its end.
TestEnded(test) == swPc.test = test /\ swPc.query = "none"

\* The GPUs of the plugin's run list.
RunGpus == {swGpuList[i] : i \in 1..Len(swGpuList)}

\* The result the test ends with, the same for all the GPUs of the run list.
AllResults(res) == swResults = [g \in RunGpus |-> res]

\* The errors, info notes and warnings this call of Go has added to those
\* the plugin held when Go was called.
ErrorsAdded == SubSeq(swErrors, Len(swBefore.errors) + 1, Len(swErrors))

InfoAdded == SubSeq(swInfo, Len(swBefore.info) + 1, Len(swInfo))

WarningsAdded == SubSeq(swWarnings, Len(swBefore.warnings) + 1, Len(swWarnings))

\* This call of Go has added an error with this code.
ErrorRecorded(code) == \E i \in 1..Len(ErrorsAdded) : ErrorsAdded[i].code = code

\* C33 as stated: once the query failed for a GPU of the list, the
\* graphics-processes test ends with FAIL, whatever a later GPU reports.
C33_Original ==
    (TestEnded("graphics_processes") /\ ErrorRecorded("DCGM_FR_FIELD_QUERY")) =>
        AllResults(NVVS_RESULT_FAIL)

\* C33, amended: the result of the test is the one set for the last GPU that
\* set any: FAIL where that GPU's query failed, WARN where it reported a
\* running graphics process, so the FAIL of an earlier GPU is overwritten by
\* the WARN of a later one; with no error recorded no result is set.  The
\* errors of all GPUs stay in the list, in the order of the GPUs, after those
\* the plugin held before.
C33_LastGpuDecides ==
    TestEnded("graphics_processes") =>
        /\ \A i \in 1..Len(ErrorsAdded) :
              /\ ErrorsAdded[i].code \in {"DCGM_FR_FIELD_QUERY", "DCGM_FR_GRAPHICS_PROCESSES"}
              /\ \A j \in 1..(i - 1) : ErrorsAdded[j].gpuId < ErrorsAdded[i].gpuId
        /\ IF ErrorsAdded = <<>>
           THEN swResults = swBefore.results
           ELSE IF ErrorsAdded[Len(ErrorsAdded)].code = "DCGM_FR_FIELD_QUERY"
           THEN AllResults(NVVS_RESULT_FAIL)
           ELSE AllResults(NVVS_RESULT_WARN)

\* The query failed for the first GPU, the second GPU has a graphics process
\* running, and the test ended with WARN.
C33_Witness ==
    /\ TestEnded("graphics_processes")
    /\ Len(ErrorsAdded) = 2
    /\ ErrorsAdded[1] = [gpuId |-> swGpuList[1], code |-> "DCGM_FR_FIELD_QUERY",
                         field |-> "graphics_pids"]
    /\ ErrorsAdded[2].code = "DCGM_FR_GRAPHICS_PROCESSES"
    /\ ErrorsAdded[2].gpuId = swGpuList[2]
    /\ AllResults(NVVS_RESULT_WARN)

\* The latest iteration added one info note, for its GPU and the status read.
AddedOneInfo ==
    swInfo = Append(swIter.infoBefore, [gpuId |-> swIter.gpuId, status |-> Answered(1).status])

\* checkInforom has dealt with a GPU whose query returned OK.
InforomRead ==
    /\ swIter.check = "checkInforom"
    /\ IterationEnded
    /\ Answered(1).ret = DCGM_ST_OK

\* C36: checkInforom leaves the stop flag as Go found it.  Per GPU, the query having
\* returned OK: a readable 0 adds a CORRUPT_INFOROM error for the GPU and sets
\* FAIL; status NOT_SUPPORTED, or status OK with a blank value, adds an info
\* note and sets SKIP; any other status than OK adds an info note and leaves
\* the results as they were; a readable value other than 0 records nothing.
\* A result set replaces whatever an earlier GPU had set.
C36_InforomOutcomes ==
    /\ swPc.test = "inforom" => main_should_stop = swBefore.stop
    /\ InforomRead =>
          LET ans == Answered(1)
          IN  CASE ans.status = DCGM_ST_NOT_SUPPORTED
                   \/ (ans.status = DCGM_ST_OK /\ DCGM_INT64_IS_BLANK(ans.value)) ->
                      /\ AddedOneInfo
                      /\ swErrors = swIter.errorsBefore
                      /\ AllResults(NVVS_RESULT_SKIP)
                [] ans.status \notin {DCGM_ST_OK, DCGM_ST_NOT_SUPPORTED} ->
                      /\ AddedOneInfo
                      /\ swErrors = swIter.errorsBefore
                      /\ swResults = swIter.resultsBefore
                [] Readable(ans) /\ ans.value = 0 ->
                      /\ AddedOneError("DCGM_FR_CORRUPT_INFOROM")
                      /\ swInfo = swIter.infoBefore
                      /\ AllResults(NVVS_RESULT_FAIL)
                [] OTHER ->
                      /\ swErrors = swIter.errorsBefore
                      /\ swInfo = swIter.infoBefore
                      /\ swResults = swIter.resultsBefore

\* The first GPU's inforom was corrupt (FAIL); the second GPU does not
\* support the field, and the result of the test is now SKIP.
C36_Witness ==
    /\ InforomRead
    /\ swIter.idx = 2
    /\ swIter.resultsBefore = [g \in RunGpus |-> NVVS_RESULT_FAIL]
    /\ Answered(1).status = DCGM_ST_NOT_SUPPORTED
    /\ AllResults(NVVS_RESULT_SKIP)
    /\ ErrorRecorded("DCGM_FR_CORRUPT_INFOROM")

\* checkLibraries has run to its end, called by Go or for a set of its own.
LibrariesChecked == swPc.test # "none" /\ swCalls = <<"checkLibraries">>

\* The set of libraries the call selected.
SelectedSet ==
    CASE swPc.test \in {"libraries_nvml", "CHECK_NVML"} -> "nvml"
      [] swPc.test \in {"libraries_cuda", "CHECK_CUDA"} -> "cuda"
      [] swPc.test \in {"libraries_cudatk", "CHECK_CUDATK"} -> "cudatk"
      [] OTHER -> "unknown"

\* The libraries of the selected set that cannot be opened.
MissingLibraries ==
    (CASE SelectedSet = "nvml" -> {"DCGM_NVML_SONAME"}
       [] SelectedSet = "cuda" -> {"DCGM_CUDA_SONAME"}
       [] SelectedSet = "cudatk" -> {"DCGM_CUDART_SONAME", "DCGM_CUBLAS_SONAME"}
       [] OTHER -> {}) \ swSystem.openable

\* The number of diagnostic notes of the selected set.
DiagnosticNotes == IF SelectedSet = "cuda" THEN 1 ELSE 3

\* C38: checkLibraries returns true exactly when a library of the selected
\* set cannot be opened; then there is one CANNOT_OPEN_LIB error per missing
\* library, the result is FAIL for the NVML set and WARN for the CUDA and the
\* CUDA toolkit set, and the set's diagnostic notes are added once; when
\* every library opens nothing is recorded; an unknown selector records one
\* BAD_PARAMETER error with FAIL and returns true.
C38_LibrariesOutcome ==
    LibrariesChecked =>
        IF SelectedSet = "unknown"
        THEN /\ swRet = TRUE
             /\ Len(ErrorsAdded) = 1
             /\ ErrorsAdded[1].code = "DCGM_FR_BAD_PARAMETER"
             /\ AllResults(NVVS_RESULT_FAIL)
             /\ InfoAdded = <<>>
        ELSE /\ swRet = (MissingLibraries # {})
             /\ Len(ErrorsAdded) = Cardinality(MissingLibraries)
             /\ \A l \in MissingLibraries :
                    \E i \in 1..Len(ErrorsAdded) :
                        /\ ErrorsAdded[i].code = "DCGM_FR_CANNOT_OPEN_LIB"
                        /\ ErrorsAdded[i].field = l
             /\ IF MissingLibraries = {}
                THEN InfoAdded = <<>> /\ swResults = swBefore.results
                ELSE /\ Len(InfoAdded) = DiagnosticNotes
                     /\ \A i, j \in 1..Len(InfoAdded) : i # j => InfoAdded[i] # InfoAdded[j]
                     /\ AllResults(IF SelectedSet = "nvml" THEN NVVS_RESULT_FAIL
                                   ELSE NVVS_RESULT_WARN)

\* Both libraries of the CUDA toolkit set were missing: two errors, WARN,
\* and the three notes once.
C38_Witness ==
    /\ LibrariesChecked
    /\ SelectedSet = "cudatk"
    /\ Cardinality(MissingLibraries) = 2
    /\ Len(ErrorsAdded) = 2
    /\ Len(InfoAdded) = 3
    /\ swRet = TRUE

\* Go has run the persistence_mode test with real GPUs.
PersistenceTested == swPc.test = "persistence_mode" /\ ~swFake

\* The GPUs of the run list that the GPU info holds with persistence mode
\* disabled.
AffectedGpus ==
    {g \in RunGpus :
        \E i \in 1..Len(swSystem.gpuInfo) :
            swSystem.gpuInfo[i].gpuId = g /\ ~swSystem.gpuInfo[i].persistenceModeEnabled}

\* C37: in the persistence_mode test, with the require-persistence parameter
\* false the result is SKIP and no GPU is inspected; with it true there is
\* one warning for each GPU of the run list that the GPU info holds with
\* persistence mode disabled and for no other, the result is WARN when there
\* is such a GPU and not set when there is none, no error is recorded and
\* the stop flag is untouched.
C37_PersistenceMode ==
    PersistenceTested =>
        IF swParams["SW_STR_REQUIRE_PERSISTENCE"] # "True"
        THEN /\ AllResults(NVVS_RESULT_SKIP)
             /\ swCalls = <<>>
             /\ WarningsAdded = <<>>
             /\ ErrorsAdded = <<>>
        ELSE /\ swCalls = <<"checkPersistenceMode">>
             /\ Len(WarningsAdded) = Cardinality(AffectedGpus)
             /\ \A g \in AffectedGpus :
                    \E i \in 1..Len(WarningsAdded) :
                        WarningsAdded[i] = [gpuId |-> g, code |-> "DCGM_FR_PERSISTENCE_MODE"]
             /\ ErrorsAdded = <<>>
             /\ main_should_stop = swBefore.stop
             /\ IF AffectedGpus = {} THEN swResults = swBefore.results
                ELSE AllResults(NVVS_RESULT_WARN)

\* Persistence mode was required; one GPU of the run list had it disabled,
\* and so had a GPU outside the list: one warning, WARN.
C37_Witness ==
    /\ PersistenceTested
    /\ swParams["SW_STR_REQUIRE_PERSISTENCE"] = "True"
    /\ Cardinality(AffectedGpus) = 1
    /\ \E i \in 1..Len(swSystem.gpuInfo) :
           swSystem.gpuInfo[i].gpuId \notin RunGpus /\ ~swSystem.gpuInfo[i].persistenceModeEnabled
    /\ Len(WarningsAdded) = 1
    /\ AllResults(NVVS_RESULT_WARN)

\* Go is under way or has returned, the GPUs being fake.
FakeRun == swPc.test # "none" /\ swFake

\* C35: with fake GPUs Go first sets the result to PASS; it then calls
\* checkPageRetirement and after it checkRowRemapping, and no other check,
\* only when the do-test parameter is "page_retirement"; for any other value
\* it calls no check and the result stays PASS; the queries of the two
\* checks pass the flags 0.
C35_FakeGpus ==
    FakeRun =>
        /\ swChecked = <<>> => AllResults(NVVS_RESULT_PASS)
        /\ IF swParams["SW_STR_DO_TEST"] = "page_retirement"
           THEN /\ swCalls \in {<<"checkPageRetirement">>,
                                <<"checkPageRetirement", "checkRowRemapping">>}
                /\ swPc.query = "none" => Len(swCalls) = 2
                /\ \A i \in 1..Len(swIter.queries) : swIter.queries[i].flags = 0
           ELSE /\ swCalls = <<>>
                /\ swPc.query = "none"
                /\ AllResults(NVVS_RESULT_PASS)
                /\ ErrorsAdded = <<>> /\ InfoAdded = <<>> /\ WarningsAdded = <<>>

\* With fake GPUs and do-test "page_retirement" Go has returned after both
\* checks, the last query having passed the flags 0.
C35_Witness ==
    /\ FakeRun
    /\ swPc.query = "none"
    /\ swCalls = <<"checkPageRetirement", "checkRowRemapping">>
    /\ swIter.check = "checkRowRemapping"
    /\ swIter.queries # <<>>
    /\ swIter.queries[1].flags = 0

\* Go is under way or has returned, the GPUs being real.
RealRun == swPc.test # "none" /\ ~swFake /\ swPc.test = swParams["SW_STR_DO_TEST"]

\* The checks of each test's family, in the order Go calls them.
FamilyOf(doTest) ==
    CASE doTest = "denylist" -> <<"checkDenylist">>
      [] doTest = "permissions" -> <<"checkPermissions">>
      [] doTest \in {"libraries_nvml", "libraries_cuda", "libraries_cudatk"} ->
             <<"checkLibraries">>
      [] doTest = "persistence_mode" -> <<"checkPersistenceMode">>
      [] doTest = "env_variables" -> <<"checkForBadEnvVaribles">>
      [] doTest = "graphics_processes" -> <<"checkForGraphicsProcesses">>
      [] doTest = "page_retirement" -> <<"checkPageRetirement", "checkRowRemapping">>
      [] doTest = "inforom" -> <<"checkInforom">>
      [] OTHER -> <<>>

\* C34: with real GPUs Go calls checks of one family at most, the family of
\* the value the do-test parameter has after the parameters supplied are
\* laid over the defaults; when the value is none of the known test names,
\* the default "None" included, no check is called, no result is set, and
\* the errors and the stop flag are as they were.
C34_OneFamilyByDoTest ==
    RealRun =>
        LET doTest == swParams["SW_STR_DO_TEST"]
        IN  /\ Len(swCalls) <= Len(FamilyOf(doTest))
            /\ \A i \in 1..Len(swCalls) : swCalls[i] = FamilyOf(doTest)[i]
            /\ doTest \notin KnownTests =>
                   /\ swCalls = <<>>
                   /\ swPc.query = "none"
                   /\ swResults = swBefore.results
                   /\ swErrors = swBefore.errors
                   /\ main_should_stop = swBefore.stop

\* No do-test parameter was supplied: Go ran with the default "None" and
\* returned with nothing called and nothing set.
C34_Witness ==
    /\ RealRun
    /\ swPc.test = "None"
    /\ swCalls = <<>>
    /\ swResults = swBefore.results
====
